---- MODULE Spec2Model ----
(***************************************************************************)
(* Model of the recipe-creation workflow (pages/CreateRecipe.tsx and the   *)
(* components under components/Recipe_Creation) together with the API      *)
(* handlers the workflow talks to (get-ingredients, generate-recipes,      *)
(* save-recipes, validate-ingredient): specification Spec.                 *)
(*                                                                         *)
(* The list helpers of utils/utils.ts are applied to bounded inputs in     *)
(* specification SpecUtils.  The handlers under pages/api are served one   *)
(* request at a time in specification SpecApi; concurrent like and delete  *)
(* requests, each handler in its two database steps, are interleaved in    *)
(* specification SpecLikes.  getFilteredRecipes and the search box of the  *)
(* Home page are specification SpecSearch.  The Home page of one user, its *)
(* like and delete requests and the deletes of another user are            *)
(* specification SpecHome.  The save handler together with the S3 bucket   *)
(* its images go to is specification SpecUpload.                           *)
(*                                                                         *)
(* Strings are sequences of one-character strings, so that trimming, case  *)
(* folding, template concatenation and split('-') are computed, not        *)
(* assumed.                                                                *)
(***************************************************************************)
EXTENDS Integers, Sequences, FiniteSets, TLC

(***************************************************************************)
(* Bounds of the model                                                     *)
(***************************************************************************)
\* largest number of recipes the model lets the AI put in one response
MaxRecipes == 2
\* cap on the number of aigenerated documents logged for the user
MaxAiCalls == 2
\* value given to process.env.API_REQUEST_LIMIT
ApiRequestLimit == 1

(***************************************************************************)
(* Strings                                                                 *)
(***************************************************************************)
\* characters in ASCII order; the rank of a character is its index
Alphabet ==
    <<" ", "-", "0", "1", "2", "3", "E", "F", "M", "P", "R",
      "a", "c", "d", "e", "g", "i", "k", "l", "m", "n", "o", "p", "r", "s", "t", "u">>

CharRank(c) == CHOOSE i \in 1..Len(Alphabet) : Alphabet[i] = c

toUpperCaseChar(c) ==
    CASE c = "e" -> "E" [] c = "f" -> "F" [] c = "m" -> "M" [] c = "r" -> "R"
      [] c = "p" -> "P" [] OTHER -> c

toLowerCaseChar(c) ==
    CASE c = "E" -> "e" [] c = "F" -> "f" [] c = "M" -> "m" [] c = "R" -> "r"
      [] c = "P" -> "p" [] OTHER -> c

toLowerCase(s) == [i \in 1..Len(s) |-> toLowerCaseChar(s[i])]

RECURSIVE trimStart(_)
trimStart(s) == IF s # <<>> /\ Head(s) = " " THEN trimStart(Tail(s)) ELSE s

RECURSIVE trimEnd(_)
trimEnd(s) ==
    IF s # <<>> /\ s[Len(s)] = " " THEN trimEnd(SubSeq(s, 1, Len(s) - 1)) ELSE s

trim(s) == trimEnd(trimStart(s))

\* s < t in the binary (code unit) order used by the database sort
RECURSIVE StrLess(_, _)
StrLess(s, t) ==
    IF t = <<>> THEN FALSE
    ELSE IF s = <<>> THEN TRUE
    ELSE IF Head(s) = Head(t) THEN StrLess(Tail(s), Tail(t))
    ELSE CharRank(Head(s)) < CharRank(Head(t))

RECURSIVE SortedNames(_)
SortedNames(S) ==
    IF S = {} THEN <<>>
    ELSE LET m == CHOOSE x \in S : \A y \in S \ {x} : StrLess(x, y)
         IN  <<m>> \o SortedNames(S \ {m})

SeqToSet(s) == {s[i] : i \in 1..Len(s)}

Egg == <<"E", "g", "g">>
Flour == <<"F", "l", "o", "u", "r">>
Rice == <<"R", "i", "c", "e">>

\* the ingredient collection of the database when the model starts
InitialCatalog == {Egg, Flour}

\* texts the user types into the New Ingredient dialog
TypedNames ==
    { <<>>,
      <<" ">>,
      <<"e", "g", "g", "s", " ">>,
      <<"R", "i", "c", "e">>,
      <<"p", "i", "n", "k", " ", "p", "e", "p", "p", "e", "r", "c", "o", "r", "n",
        " ", "s", "a", "u", "c", "e">> }

dietaryOptions == <<"Vegetarian", "Vegan", "Gluten-Free", "Keto", "Paleo">>

steps == <<"Choose Ingredients", "Choose Diet", "Review and Create Recipes",
           "Select Recipes", "Review and Save Recipes">>

initialIngridients == <<>>
initialPreferences == <<>>
initialRecipes == <<>>
initialSelectedIds == <<>>

\* Array.prototype.splice(i, 1) on a copy
RemoveAt(s, i) == SubSeq(s, 1, i - 1) \o SubSeq(s, i + 1, Len(s))

VARIABLES
    page,                   \* "CreateRecipe" while Navigation is mounted, else "Profile" or "Away"
    reachedLimit,           \* recipeCreationData.reachedLimit
    originalIngredientList, \* recipeCreationData.ingredientList
    step, ingredients, preferences, generatedRecipes, selectedRecipeIds, isLoading,
    ingredientList,         \* IngredientForm's copy of the catalog
    noPreference,           \* DietaryPreferences' checkbox state
    isOpen, ingredientName, dialogIsLoading, isDisabled,   \* NewIngredientDialog
    calls,                  \* the requests of this page that are in flight, oldest first
    aiCount,                \* aigenerated documents of the user
    catalog                 \* the ingredient collection

\* the state of the recipe-creation workflow and of the collections it uses
workflowVars ==
    <<page, reachedLimit, originalIngredientList, step, ingredients, preferences,
      generatedRecipes, selectedRecipeIds, isLoading, ingredientList, noPreference,
      isOpen, ingredientName, dialogIsLoading, isDisabled, calls, aiCount, catalog>>

\* the workflow state without the ingredient collection
workflowButCatalog ==
    <<page, reachedLimit, originalIngredientList, step, ingredients, preferences,
      generatedRecipes, selectedRecipeIds, isLoading, ingredientList, noPreference,
      isOpen, ingredientName, dialogIsLoading, isDisabled, calls, aiCount>>

VARIABLES
    recipeList,             \* utils: the recipe list the list helpers are applied to
    lastCall                \* utils: the last helper call, its arguments and its result

utilVars == <<recipeList, lastCall>>

VARIABLES
    recipeDb,               \* the recipe collection: a set of documents
    recipeCount,            \* number of recipe documents inserted so far
    aigenerated,            \* the aigenerated collection: the userId of each document
    batches,                \* the batch ids api/generate-recipes has answered with
    running,                \* like / delete handlers between their two database operations
    oddToggles,             \* <<recipe id, user>> with an odd number of completed like toggles
    overlapped,             \* <<recipe id, user>> that had two like requests of the user at once
    lastRequest             \* the request whose handler took the last step, and its answer

VARIABLES
    s3Objects,              \* the keys of the objects stored in the S3 bucket
    s3Pending               \* the keys of the PutObject commands sent and not settled

s3Vars == <<s3Objects, s3Pending>>

apiVars == <<recipeDb, recipeCount, aigenerated, batches, running, oddToggles, overlapped,
             lastRequest, s3Vars>>

VARIABLES
    searchVal,              \* Home: the text of the search input
    searchView,             \* Home: the recipes handed to ViewRecipes
    viewDeleteId            \* ViewRecipes' deleteId: the id of the card shown as loading

homeVars == <<searchVal, searchView, viewDeleteId>>

\* everything the recipe-creation workflow leaves alone
outsideWorkflow == <<utilVars, apiVars, homeVars>>

\* no helper has been called
NoCall == [fn |-> "none"]

UtilsIdle == recipeList = <<>> /\ lastCall = NoCall

\* no request has been handled
NoRequest ==
    [session |-> "none", sent |-> 0, status |-> 0, effects |-> {}]

S3Idle == s3Objects = {} /\ s3Pending = {}

ApiIdle ==
    /\ S3Idle
    /\ recipeDb = {}
    /\ recipeCount = 0
    /\ aigenerated = <<>>
    /\ batches = {}
    /\ running = <<>>
    /\ oddToggles = {}
    /\ overlapped = {}
    /\ lastRequest = NoRequest

\* no Home page is mounted
HomeIdle == searchVal = <<>> /\ searchView = <<>> /\ viewDeleteId = ""

vars == <<workflowVars, outsideWorkflow>>

workflowData == <<step, ingredients, preferences, generatedRecipes, selectedRecipeIds>>
dialogState == <<isOpen, ingredientName, dialogIsLoading, isDisabled>>
serverState == <<aiCount, catalog>>
pageProps == <<page, reachedLimit, originalIngredientList>>

(***************************************************************************)
(* What is on screen                                                       *)
(***************************************************************************)
\* the workflow is rendered (not the LimitReached view)
WorkflowShown == page = "CreateRecipe" /\ ~reachedLimit

\* the Prev / Next buttons can be pressed: they are rendered outside the
\* isLoading switch, and an open Dialog is modal
NavShown == WorkflowShown /\ ~isOpen

\* mutation: StepComponent rendered whether or not a call is loading
StepShownWhileLoading(s) == WorkflowShown /\ step = s

\* StepComponent renders the component of step s
StepShown(s) == WorkflowShown /\ ~isLoading /\ step = s

\* the controls of step s can be used
StepUsable(s) == StepShown(s) /\ ~isOpen

(***************************************************************************)
(* Component-local state follows mounting: useState initialises it when    *)
(* the component mounts, and it is gone when the component unmounts.       *)
(***************************************************************************)
LocalState ==
    /\ ingredientList' =
          IF StepShown(0)' THEN (IF StepShown(0) THEN ingredientList
                                 ELSE originalIngredientList')
          ELSE <<>>
    /\ noPreference' =
          IF StepShown(1)' THEN (IF StepShown(1) THEN noPreference
                                 ELSE Len(preferences') = 0)
          ELSE FALSE
    /\ isOpen' = (StepShown(0)' /\ StepShown(0) /\ isOpen)
    /\ ingredientName' = IF StepShown(0)' /\ StepShown(0) THEN ingredientName ELSE <<>>
    /\ dialogIsLoading' = (StepShown(0)' /\ StepShown(0) /\ dialogIsLoading)
    /\ isDisabled' = (StepShown(0)' /\ StepShown(0) /\ isDisabled)

(***************************************************************************)
(* Page load: getServerSideProps -> api/get-ingredients, then Navigation   *)
(* mounts and the oldIngredients effect runs.                              *)
(***************************************************************************)
\* uuidv4() returns an id unlike every other; which one is immaterial, and the
\* model takes the first id not in the list, counting from the rank of the
\* name, so that equal lists built in different ways are equal states
NameRank(name) ==
    CASE name = Egg -> 1 [] name = Flour -> 2 [] OTHER -> 3

uuidv4(list, name) ==
    LET used == {list[i].id : i \in 1..Len(list)}
    IN  CHOOSE k \in NameRank(name)..(NameRank(name) + Len(list)) :
           /\ k \notin used
           /\ \A j \in NameRank(name)..(k - 1) : j \in used

\* oldIngredients.map(i => ({ name: i, quantity: null, id: uuidv4() }))
RECURSIVE oldIngredientsEffect(_)
oldIngredientsEffect(oldIngredients) ==
    IF oldIngredients = <<>> THEN <<>>
    ELSE LET front == oldIngredientsEffect(SubSeq(oldIngredients, 1, Len(oldIngredients) - 1))
             name == oldIngredients[Len(oldIngredients)]
         IN  Append(front, [name |-> name, id |-> uuidv4(front, name)])

\* the arrays router.query.oldIngredients holds in the model: none (a query
\* with a single name is a string, not an array, and the effect skips it like
\* no query), the names of a recipe with two ingredients, and the names of a
\* recipe that lists an ingredient twice
OldIngredientQueries == {<<>>, <<Egg, Flour>>, <<Egg, Egg, Flour>>}

getIngredientsReachedLimit(totalGeneratedCount) == totalGeneratedCount >= ApiRequestLimit

getIngredientsList(totalGeneratedCount, db) ==
    IF getIngredientsReachedLimit(totalGeneratedCount) THEN <<>> ELSE SortedNames(db)

Mounted(count, db, oldIngredients) ==
    /\ page = "CreateRecipe"
    /\ reachedLimit = getIngredientsReachedLimit(count)
    /\ originalIngredientList = getIngredientsList(count, db)
    /\ step = 0
    /\ ingredients = oldIngredientsEffect(oldIngredients)
    /\ preferences = initialPreferences
    /\ generatedRecipes = initialRecipes
    /\ selectedRecipeIds = initialSelectedIds
    /\ isLoading = FALSE
    /\ ingredientList = (IF getIngredientsReachedLimit(count) THEN <<>>
                         ELSE getIngredientsList(count, db))
    /\ noPreference = FALSE
    /\ isOpen = FALSE
    /\ ingredientName = <<>>
    /\ dialogIsLoading = FALSE
    /\ isDisabled = FALSE
    /\ calls = <<>>

Init ==
    /\ catalog = InitialCatalog
    /\ aiCount \in 0..MaxAiCalls
    /\ \E oldIngredients \in OldIngredientQueries : Mounted(aiCount, catalog, oldIngredients)
    /\ UtilsIdle
    /\ ApiIdle
    /\ HomeIdle

\* the user leaves the page (header link, or router.push after a save)
NavigateAway ==
    /\ page = "CreateRecipe"
    /\ calls = <<>>
    /\ page' = "Away"
    /\ reachedLimit' = FALSE
    /\ originalIngredientList' = <<>>
    /\ step' = 0
    /\ ingredients' = initialIngridients
    /\ preferences' = initialPreferences
    /\ generatedRecipes' = initialRecipes
    /\ selectedRecipeIds' = initialSelectedIds
    /\ isLoading' = FALSE
    /\ LocalState
    /\ UNCHANGED <<calls, aiCount, catalog>>
    /\ UNCHANGED outsideWorkflow

\* the user opens /CreateRecipe, possibly through Clone Ingredients
OpenCreateRecipe ==
    /\ page # "CreateRecipe"
    /\ \E oldIngredients \in OldIngredientQueries :
          ingredients' = oldIngredientsEffect(oldIngredients)
    /\ page' = "CreateRecipe"
    /\ reachedLimit' = getIngredientsReachedLimit(aiCount)
    /\ originalIngredientList' = getIngredientsList(aiCount, catalog)
    /\ step' = 0
    /\ preferences' = initialPreferences
    /\ generatedRecipes' = initialRecipes
    /\ selectedRecipeIds' = initialSelectedIds
    /\ isLoading' = FALSE
    /\ LocalState
    /\ UNCHANGED <<calls, aiCount, catalog>>
    /\ UNCHANGED outsideWorkflow

(***************************************************************************)
(* Navigation: Prev / Next                                                 *)
(***************************************************************************)
updateStep(val) ==
    LET newStep == step + val
    IN  IF newStep < 0 \/ newStep >= Len(steps) THEN 0 ELSE newStep

PrevDisabled == step = 0

NextDisabled == step = Len(steps) - 1 \/ (step = 2 /\ Len(generatedRecipes) = 0)

\* mutation: going back to step 0 drops the candidate batch
PrevDiscarding ==
    /\ NavShown
    /\ ~PrevDisabled
    /\ step' = updateStep(-1)
    /\ generatedRecipes' = IF step' = 0 THEN initialRecipes ELSE generatedRecipes
    /\ UNCHANGED <<pageProps, ingredients, preferences,
                   selectedRecipeIds, isLoading, calls, serverState>>
    /\ LocalState
    /\ UNCHANGED outsideWorkflow

Prev ==
    /\ NavShown
    /\ ~PrevDisabled
    /\ step' = updateStep(-1)
    /\ UNCHANGED <<pageProps, ingredients, preferences, generatedRecipes,
                   selectedRecipeIds, isLoading, calls, serverState>>
    /\ LocalState
    /\ UNCHANGED outsideWorkflow

NextStep ==
    /\ NavShown
    /\ ~NextDisabled
    /\ step' = updateStep(1)
    /\ UNCHANGED <<pageProps, ingredients, preferences, generatedRecipes,
                   selectedRecipeIds, isLoading, calls, serverState>>
    /\ LocalState
    /\ UNCHANGED outsideWorkflow

(***************************************************************************)
(* Step 0: IngredientForm, IngredientList, Chip                            *)
(***************************************************************************)
\* Combobox disabled={Boolean(generatedRecipes.length)}
ComboboxDisabled == Len(generatedRecipes) # 0

handleChange(val) ==
    IF val = <<>> THEN ingredients
    ELSE IF \E i \in 1..Len(ingredients) : ingredients[i].name = val THEN ingredients
    ELSE Append(ingredients, [name |-> val, id |-> uuidv4(ingredients, val)])

\* mutation: the chip deletes without looking at generatedRecipes
deleteIngredientUnguarded(id) ==
    SelectSeq(ingredients, LAMBDA ingredient : ingredient.id # id)

deleteIngredient(id) ==
    IF Len(generatedRecipes) # 0 THEN ingredients
    ELSE SelectSeq(ingredients, LAMBDA ingredient : ingredient.id # id)

SelectIngredient ==
    /\ StepUsable(0)
    /\ ~ComboboxDisabled
    /\ \E i \in 1..Len(ingredientList) : ingredients' = handleChange(ingredientList[i])
    /\ UNCHANGED <<pageProps, step, preferences, generatedRecipes, selectedRecipeIds,
                   isLoading, ingredientList, noPreference, dialogState, calls, serverState>>
    /\ UNCHANGED outsideWorkflow

DeleteChip ==
    /\ StepUsable(0)
    /\ \E i \in 1..Len(ingredients) : ingredients' = deleteIngredient(ingredients[i].id)
    /\ UNCHANGED <<pageProps, step, preferences, generatedRecipes, selectedRecipeIds,
                   isLoading, ingredientList, noPreference, dialogState, calls, serverState>>
    /\ UNCHANGED outsideWorkflow

(***************************************************************************)
(* Step 0: NewIngredientDialog                                             *)
(***************************************************************************)
EndsWith(s, suffix) ==
    /\ Len(s) >= Len(suffix)
    /\ SubSeq(s, Len(s) - Len(suffix) + 1, Len(s)) = suffix

\* words the pluralize package leaves alone
Uncountable == {<<"r", "i", "c", "e">>}

\* pluralize(word), for the regular rules the words of the model need
pluralize(word) ==
    IF word \in Uncountable \/ EndsWith(word, <<"s">>) THEN word
    ELSE IF EndsWith(word, <<"o">>) THEN word \o <<"e", "s">>
    ELSE word \o <<"s">>

\* pluralize.singular(word)
singular(word) ==
    IF word \in Uncountable THEN word
    ELSE IF EndsWith(word, <<"o", "e", "s">>) THEN SubSeq(word, 1, Len(word) - 2)
    ELSE IF EndsWith(word, <<"s">>) THEN SubSeq(word, 1, Len(word) - 1)
    ELSE word

MaxNameLength == 20

availableIngredients == {toLowerCase(ingredientList[i]) : i \in 1..Len(ingredientList)}

\* mutation: only the exact lower-case form is looked up
isAvailableExactOnly(name) ==
    toLowerCase(trim(name)) \in availableIngredients

isAvailable(name) ==
    LET ingredient == toLowerCase(trim(name))
    IN  \/ ingredient \in availableIngredients
        \/ pluralize(ingredient) \in availableIngredients
        \/ singular(ingredient) \in availableIngredients

\* Submit: disabled={!ingredientName.trim() || isDisabled}
SubmitDisabled == trim(ingredientName) = <<>> \/ isDisabled

OpenDialog ==
    /\ StepUsable(0)
    /\ isOpen' = TRUE
    /\ ingredientName' = <<>>
    /\ UNCHANGED <<pageProps, workflowData, isLoading, ingredientList, noPreference,
                   dialogIsLoading, isDisabled, calls, serverState>>
    /\ UNCHANGED outsideWorkflow

\* Cancel is rendered only while the dialog is not loading
CancelDialog ==
    /\ StepShown(0) /\ isOpen /\ ~dialogIsLoading
    /\ isOpen' = FALSE
    /\ ingredientName' = <<>>
    /\ UNCHANGED <<pageProps, workflowData, isLoading, ingredientList, noPreference,
                   dialogIsLoading, isDisabled, calls, serverState>>
    /\ UNCHANGED outsideWorkflow

handleInputChange ==
    /\ StepShown(0) /\ isOpen
    /\ \E value \in TypedNames : ingredientName' = value
    /\ isDisabled' = FALSE
    /\ UNCHANGED <<pageProps, workflowData, isLoading, ingredientList, noPreference,
                   isOpen, dialogIsLoading, calls, serverState>>
    /\ UNCHANGED outsideWorkflow

handleSubmit ==
    /\ StepShown(0) /\ isOpen /\ ~dialogIsLoading
    /\ ~SubmitDisabled
    /\ IF trim(ingredientName) = <<>>
       THEN UNCHANGED <<isDisabled, dialogIsLoading, calls>>
       ELSE IF Len(trim(ingredientName)) > MaxNameLength \/ isAvailable(ingredientName)
       THEN isDisabled' = TRUE /\ UNCHANGED <<dialogIsLoading, calls>>
       ELSE /\ dialogIsLoading' = TRUE
            /\ calls' = Append(calls, [kind |-> "validate",
                                        ingredientName |-> ingredientName,
                                        ingredientList |-> ingredientList])
            /\ UNCHANGED isDisabled
    /\ UNCHANGED <<pageProps, workflowData, isLoading, ingredientList, noPreference,
                   isOpen, ingredientName, serverState>>
    /\ UNCHANGED outsideWorkflow

\* api/validate-ingredient
formattedIngredientName(name) ==
    <<toUpperCaseChar(name[1])>> \o toLowerCase(SubSeq(name, 2, Len(name)))

\* what validateIngredient (lib/openai) can come back with
ValidateOutcomes == {"throw", "null", "unparsable", "valid", "invalid"}

\* saveOpenaiResponses adds one aigenerated document unless the write fails
Logged(logged) == IF logged THEN aiCount + 1 ELSE aiCount

ValidateResponse ==
    \E c \in 1..Len(calls), outcome \in ValidateOutcomes, logged \in BOOLEAN :
       /\ calls[c].kind = "validate"
       /\ logged => (outcome # "throw" /\ aiCount < MaxAiCalls)
       /\ aiCount' = Logged(logged)
       /\ LET name == formattedIngredientName(calls[c].ingredientName)
              created == outcome = "valid" /\ name \notin catalog
          IN  /\ catalog' = IF created THEN catalog \cup {name} ELSE catalog
              /\ ingredientList' = IF created THEN Append(calls[c].ingredientList, name)
                                   ELSE ingredientList
              /\ ingredientName' = IF outcome \in {"throw", "unparsable"}
                                   THEN ingredientName ELSE <<>>
       /\ dialogIsLoading' = FALSE
       /\ calls' = RemoveAt(calls, c)
       /\ UNCHANGED <<pageProps, workflowData, isLoading, noPreference, isOpen, isDisabled>>
       /\ UNCHANGED outsideWorkflow

(***************************************************************************)
(* Step 1: DietaryPreferences                                              *)
(***************************************************************************)
\* the options the model's user ticks
UsedOptions == {dietaryOptions[1], dietaryOptions[4]}

\* Field disabled={Boolean(generatedRecipes.length)}
NoPreferenceDisabled == Len(generatedRecipes) # 0

\* Field disabled={noPreference || Boolean(generatedRecipes.length)}
OptionDisabled == noPreference \/ Len(generatedRecipes) # 0

handlePreferenceChange(option) ==
    IF option \in SeqToSet(preferences)
    THEN SelectSeq(preferences, LAMBDA p : p # option)
    ELSE Append(preferences, option)

\* useEffect(..., [preferences.length]): runs when the length changed
preferencesLengthEffect(newPreferences, flag) ==
    IF Len(newPreferences) # Len(preferences) /\ Len(newPreferences) = 0 THEN TRUE ELSE flag

TogglePreference ==
    /\ StepUsable(1)
    /\ ~OptionDisabled
    /\ \E option \in UsedOptions : preferences' = handlePreferenceChange(option)
    /\ noPreference' = preferencesLengthEffect(preferences', noPreference)
    /\ UNCHANGED <<pageProps, step, ingredients, generatedRecipes, selectedRecipeIds,
                   isLoading, ingredientList, dialogState, calls, serverState>>
    /\ UNCHANGED outsideWorkflow

handleNoPreference ==
    /\ StepUsable(1)
    /\ ~NoPreferenceDisabled
    /\ preferences' = <<>>
    /\ noPreference' = preferencesLengthEffect(preferences', ~noPreference)
    /\ UNCHANGED <<pageProps, step, ingredients, generatedRecipes, selectedRecipeIds,
                   isLoading, ingredientList, dialogState, calls, serverState>>
    /\ UNCHANGED outsideWorkflow

(***************************************************************************)
(* Step 2: ReviewComponent, and the generation call                        *)
(***************************************************************************)
MinIngredients == 3

\* Edit: disabled={Boolean(generatedRecipes.length)}
EditDisabled == Len(generatedRecipes) # 0

\* Create Recipes: disabled={ingredients.length < 3 || Boolean(generatedRecipes.length)}
CreateDisabled == Len(ingredients) < MinIngredients \/ Len(generatedRecipes) # 0

editInputs ==
    /\ StepUsable(2)
    /\ ~EditDisabled
    /\ step' = 0
    /\ UNCHANGED <<pageProps, ingredients, preferences, generatedRecipes,
                   selectedRecipeIds, isLoading, calls, serverState>>
    /\ LocalState
    /\ UNCHANGED outsideWorkflow

\* handleIngredientSubmit up to the await
handleIngredientSubmit ==
    /\ StepUsable(2)
    /\ ~CreateDisabled
    /\ isLoading' = TRUE
    /\ calls' = Append(calls, [kind |-> "gen", step |-> step, ingredients |-> ingredients,
                                dietaryPreferences |-> preferences])
    /\ UNCHANGED <<pageProps, workflowData, serverState>>
    /\ LocalState
    /\ UNCHANGED outsideWorkflow

Digits == <<"0", "1", "2", "3", "4", "5", "6", "7", "8", "9">>

\* the _id of the n-th aigenerated document
ObjectId(n) == <<"a", "i", Digits[n + 1]>>

NullPromptId == <<"n", "u", "l", "l", "-", "p", "r", "o", "m", "p", "t", "-", "i", "d">>

RecipeNames == <<"Omelette", "Pancakes", "Custard", "Crepes", "Flan">>

\* `${openaiPromptId}-${idx}`
clientKey(openaiPromptId, idx) == openaiPromptId \o <<"-">> \o <<Digits[idx + 1]>>

\* parsedRecipes.map((recipe, idx) => ({ ...recipe, openaiPromptId: ... }))
tagRecipes(n, openaiPromptId) ==
    [i \in 1..n |-> [name |-> RecipeNames[i],
                     openaiPromptId |-> clientKey(openaiPromptId, i - 1)]]

\* what api/generate-recipes can answer: the OpenAI call throws (500), or it
\* returns message content that is null, not JSON, JSON that is no array, or
\* a JSON array
GenOutcomes == {"throw", "null", "unparsable", "nonarray", "array"}

\* generateRecipe: openaiPromptId: _id || 'null-prompt-id'
generateRecipePromptId(logged) == IF logged THEN ObjectId(aiCount + 1) ELSE NullPromptId

\* the rest of handleIngredientSubmit, after the await resolves
GenSuccess ==
    \E c \in 1..Len(calls), n \in 0..MaxRecipes, logged \in BOOLEAN :
       /\ calls[c].kind = "gen"
       /\ logged => aiCount < MaxAiCalls
       /\ aiCount' = Logged(logged)
       /\ isLoading' = FALSE
       /\ generatedRecipes' = tagRecipes(n, generateRecipePromptId(logged))
       /\ step' = calls[c].step + 1
       /\ calls' = RemoveAt(calls, c)
       /\ UNCHANGED <<pageProps, ingredients, preferences, selectedRecipeIds, catalog>>
       /\ LocalState
       /\ UNCHANGED outsideWorkflow

\* mutation: the step is advanced before the response is parsed
GenFailureAdvancing ==
    \E c \in 1..Len(calls), outcome \in GenOutcomes \ {"array"}, logged \in BOOLEAN :
       /\ calls[c].kind = "gen"
       /\ logged => (outcome # "throw" /\ aiCount < MaxAiCalls)
       /\ aiCount' = Logged(logged)
       /\ calls' = RemoveAt(calls, c)
       /\ step' = IF outcome = "throw" THEN step ELSE calls[c].step + 1
       /\ UNCHANGED <<pageProps, ingredients, preferences, generatedRecipes,
                      selectedRecipeIds, isLoading, catalog>>
       /\ LocalState
       /\ UNCHANGED outsideWorkflow

\* the await rejects, or JSON.parse / .map throws: catch (error) { console.log }
GenFailure ==
    \E c \in 1..Len(calls), outcome \in GenOutcomes \ {"array"}, logged \in BOOLEAN :
       /\ calls[c].kind = "gen"
       /\ logged => (outcome # "throw" /\ aiCount < MaxAiCalls)
       /\ aiCount' = Logged(logged)
       /\ calls' = RemoveAt(calls, c)
       /\ UNCHANGED <<pageProps, workflowData, isLoading, catalog>>
       /\ LocalState
       /\ UNCHANGED outsideWorkflow

(***************************************************************************)
(* Step 3: SelectRecipesComponent                                          *)
(***************************************************************************)
\* mutation: a click always adds the id
handleRecipeSelectionAppending(recipeId) ==
    Append(selectedRecipeIds, recipeId)

handleRecipeSelection(recipeId) ==
    IF recipeId \in SeqToSet(selectedRecipeIds)
    THEN SelectSeq(selectedRecipeIds, LAMBDA p : p # recipeId)
    ELSE Append(selectedRecipeIds, recipeId)

allIds == [i \in 1..Len(generatedRecipes) |-> generatedRecipes[i].openaiPromptId]

ToggleRecipe ==
    /\ StepUsable(3)
    /\ \E i \in 1..Len(generatedRecipes) :
          selectedRecipeIds' = handleRecipeSelection(generatedRecipes[i].openaiPromptId)
    /\ UNCHANGED <<pageProps, step, ingredients, preferences, generatedRecipes, isLoading,
                   ingredientList, noPreference, dialogState, calls, serverState>>
    /\ UNCHANGED outsideWorkflow

handleSelectAll ==
    /\ StepUsable(3)
    /\ selectedRecipeIds' = allIds
    /\ UNCHANGED <<pageProps, step, ingredients, preferences, generatedRecipes, isLoading,
                   ingredientList, noPreference, dialogState, calls, serverState>>
    /\ UNCHANGED outsideWorkflow

UnselectAll ==
    /\ StepUsable(3)
    /\ selectedRecipeIds' = <<>>
    /\ UNCHANGED <<pageProps, step, ingredients, preferences, generatedRecipes, isLoading,
                   ingredientList, noPreference, dialogState, calls, serverState>>
    /\ UNCHANGED outsideWorkflow

(***************************************************************************)
(* Step 4: ReviewRecipesComponent, and the save call                       *)
(***************************************************************************)
\* mutation: the whole batch is submitted
finalRecipesUnfiltered == generatedRecipes

\* generatedRecipes.filter((recipe) => selectedRecipes.includes(recipe.openaiPromptId))
finalRecipes ==
    SelectSeq(generatedRecipes,
              LAMBDA recipe : recipe.openaiPromptId \in SeqToSet(selectedRecipeIds))

\* the Submit Selected Recipes button is rendered only if finalRecipes.length
SubmitShown == Len(finalRecipes) # 0

\* handleRecipeSubmit(finalRecipes) up to the await
handleRecipeSubmit ==
    /\ StepUsable(4)
    /\ SubmitShown
    /\ isLoading' = TRUE
    /\ calls' = Append(calls, [kind |-> "save", recipes |-> finalRecipes])
    /\ UNCHANGED <<pageProps, workflowData, serverState>>
    /\ LocalState
    /\ UNCHANGED outsideWorkflow

\* mutation: the selection is not cleared after a save
SaveSuccessKeepingSelection ==
    \E c \in 1..Len(calls), logged \in BOOLEAN :
       /\ calls[c].kind = "save"
       /\ logged => aiCount < MaxAiCalls
       /\ aiCount' = Logged(logged)
       /\ isLoading' = FALSE
       /\ ingredients' = initialIngridients
       /\ preferences' = initialPreferences
       /\ generatedRecipes' = initialRecipes
       /\ step' = 0
       /\ calls' = RemoveAt(calls, c)
       /\ page' = "Profile"
       /\ reachedLimit' = FALSE
       /\ originalIngredientList' = <<>>
       /\ UNCHANGED <<selectedRecipeIds, catalog>>
       /\ LocalState
       /\ UNCHANGED outsideWorkflow

\* api/save-recipes answered 200: generateImages logged one aigenerated
\* document (unless that write failed); the rest of handleRecipeSubmit
\* resets the workflow, and router.push('/Profile') leaves the page: on
\* routeChangeStart MyApp renders Loading in place of the page
SaveSuccess ==
    \E c \in 1..Len(calls), logged \in BOOLEAN :
       /\ calls[c].kind = "save"
       /\ logged => aiCount < MaxAiCalls
       /\ aiCount' = Logged(logged)
       /\ isLoading' = FALSE
       /\ ingredients' = initialIngridients
       /\ preferences' = initialPreferences
       /\ generatedRecipes' = initialRecipes
       /\ selectedRecipeIds' = initialSelectedIds
       /\ step' = 0
       /\ calls' = RemoveAt(calls, c)
       /\ page' = "Profile"
       /\ reachedLimit' = FALSE
       /\ originalIngredientList' = <<>>
       /\ UNCHANGED catalog
       /\ LocalState
       /\ UNCHANGED outsideWorkflow

\* api/save-recipes answered 500, or the request failed: catch (error) { console.log }
SaveFailure ==
    \E c \in 1..Len(calls), logged \in BOOLEAN :
       /\ calls[c].kind = "save"
       /\ logged => aiCount < MaxAiCalls
       /\ aiCount' = Logged(logged)
       /\ calls' = RemoveAt(calls, c)
       /\ UNCHANGED <<pageProps, workflowData, isLoading, catalog>>
       /\ LocalState
       /\ UNCHANGED outsideWorkflow

Next ==
    \/ Prev \/ NextStep \/ NavigateAway \/ OpenCreateRecipe
    \/ SelectIngredient \/ DeleteChip
    \/ OpenDialog \/ CancelDialog \/ handleInputChange \/ handleSubmit \/ ValidateResponse
    \/ TogglePreference \/ handleNoPreference
    \/ editInputs \/ handleIngredientSubmit \/ GenSuccess \/ GenFailure
    \/ ToggleRecipe \/ handleSelectAll \/ UnselectAll
    \/ handleRecipeSubmit \/ SaveSuccess \/ SaveFailure

Spec == Init /\ [][Next]_vars

(***************************************************************************)
(* Properties of the recipe-creation workflow                              *)
(***************************************************************************)
DistinctIngredientNames == {ingredients[i].name : i \in 1..Len(ingredients)}

GenInFlight == \E c \in 1..Len(calls) : calls[c].kind = "gen"
GenDispatched == Len(calls') = Len(calls) + 1 /\ calls'[Len(calls')].kind = "gen"

\* C1: the workflow advances from a step below 3 to step 3, and a generation
\* call is dispatched, only when the ingredient set holds at least 3 distinct
\* ingredient names.
C1_AdvanceNeedsThreeDistinct ==
    [][((step < 3 /\ step' = 3) \/ GenDispatched)
          => Cardinality(DistinctIngredientNames) >= 3]_vars

\* C2: the loading state is exited in every outcome: whenever the workflow is
\* on screen and no call is outstanding, the step's controls are shown, not
\* the loading view.
C2_LoadingExitedInEveryOutcome ==
    (WorkflowShown /\ calls = <<>>) => ~isLoading

\* C3 as stated: a failed generation call leaves the workflow at step 2 with
\* no batch and unchanged inputs, a failed save call leaves it at step 4 with
\* everything unchanged.
C3_FailureLeavesStep2Or4 ==
    [][/\ GenFailure => (step' = 2 /\ Len(generatedRecipes') = 0
                          /\ UNCHANGED <<ingredients, preferences>>)
       /\ SaveFailure => (step' = 4 /\ UNCHANGED <<ingredients, preferences,
                                                   generatedRecipes, selectedRecipeIds>>)]_vars

\* C3 as amended: a failed generation or save call changes no workflow data:
\* step, ingredients, preferences, candidates and selection are what they were
\* when the failure arrived, and after a failed generation there is no batch.
C3_FailureChangesNoData ==
    [][/\ GenFailure => (UNCHANGED workflowData /\ Len(generatedRecipes') = 0)
       /\ SaveFailure => UNCHANGED workflowData]_vars

\* a generation call has failed: the loading view stays with no call left
C3_Witness ==
    /\ WorkflowShown /\ isLoading /\ calls = <<>>
    /\ Len(generatedRecipes) = 0 /\ Len(ingredients) >= 3 /\ Len(preferences) > 0

\* C4: whenever the workflow is at step 3 or 4, generatedRecipes holds at
\* least one recipe.
C4_BatchNonEmptyAtStep3And4 ==
    (WorkflowShown /\ step \in {3, 4}) => Len(generatedRecipes) > 0

\* C5: while a candidate batch exists and the user stays on the page, no step
\* changes the ingredient list or the preference list, and no generation call
\* is dispatched.
C5_InputsFrozenWhileBatchExists ==
    [][(Len(generatedRecipes) # 0 /\ page' = "CreateRecipe")
          => (ingredients' = ingredients /\ preferences' = preferences /\ ~GenDispatched)]_vars

\* the user is on the diet step with a batch and ticked preferences
C5_Witness ==
    StepUsable(1) /\ Len(generatedRecipes) # 0 /\ Len(preferences) # 0 /\ Len(ingredients) # 0

\* C6: after a successful save (the only way to the Profile page) the step is
\* 0 and ingredients, preferences, candidates and selection are all empty.
C6_ResetAfterSave ==
    page = "Profile" =>
        /\ step = 0
        /\ ingredients = <<>>
        /\ preferences = <<>>
        /\ generatedRecipes = <<>>
        /\ selectedRecipeIds = <<>>
        /\ ~isLoading

\* a save has succeeded
C6_Witness == page = "Profile" /\ step = 0 /\ calls = <<>>

\* C7: a save call in flight was submitted with a non-empty selection and
\* carries exactly the candidates whose ids are selected, each once, in batch
\* order.
C7_SaveCarriesExactlySelection ==
    \A c \in 1..Len(calls) :
       calls[c].kind = "save" =>
          LET sent == calls[c].recipes
              chosen == {i \in 1..Len(generatedRecipes) :
                            \E j \in 1..Len(selectedRecipeIds) :
                               selectedRecipeIds[j] = generatedRecipes[i].openaiPromptId}
          IN  /\ Len(selectedRecipeIds) > 0
              /\ Len(sent) > 0
              /\ Len(sent) = Cardinality(chosen)
              /\ \A i \in chosen : \E k \in 1..Len(sent) : sent[k] = generatedRecipes[i]
              /\ \A k \in 1..Len(sent) : \E i \in chosen : sent[k] = generatedRecipes[i]
              /\ \A k, l \in 1..Len(sent) :
                    k < l => \E i, j \in chosen :
                                i < j /\ sent[k] = generatedRecipes[i]
                                      /\ sent[l] = generatedRecipes[j]

\* a save of a proper part of the batch is in flight
C7_Witness ==
    \E c \in 1..Len(calls) :
       /\ calls[c].kind = "save"
       /\ Len(calls[c].recipes) < Len(generatedRecipes)

\* C8 as stated: once the user is back at step 0 the ingredient picker works
\* again (the batch was discarded by navigating back).
C8_Step0AllowsEditing == StepUsable(0) => ~ComboboxDisabled

\* C8 as amended: navigation never discards the batch: while the user stays on
\* the page a candidate batch, once it exists, is kept as it is.
C8_BatchKeptWhileOnPage ==
    [][(Len(generatedRecipes) # 0 /\ page' = "CreateRecipe")
          => generatedRecipes' = generatedRecipes]_vars

\* the user went back to step 0 with a batch: the picker is disabled
C8_Witness == StepUsable(0) /\ Len(generatedRecipes) # 0 /\ ComboboxDisabled

\* C9: at most one of the workflow's calls is outstanding, and while one is
\* outstanding no control that dispatches a call can be used.
C9_AtMostOneCallOutstanding ==
    /\ Len(calls) <= 1
    /\ calls # <<>> =>
          /\ ~(StepUsable(2) /\ ~CreateDisabled)
          /\ ~(StepUsable(4) /\ SubmitShown)
          /\ ~(StepShown(0) /\ isOpen /\ ~dialogIsLoading /\ ~SubmitDisabled)

\* a validation call is outstanding
C9_Witness == Len(calls) = 1 /\ calls[1].kind = "validate" /\ dialogIsLoading

\* C10: whenever the user's count of logged AI calls is at or above the limit,
\* the page shows the limit-reached view and no generation request is being
\* served.
C10_LimitStopsGeneration ==
    (page = "CreateRecipe" /\ aiCount >= ApiRequestLimit) => (reachedLimit /\ ~GenInFlight)

\* C23: api/validate-ingredient is called only for a name that, trimmed, is
\* not empty, has at most 20 characters, and whose lower-case form, plural
\* and singular are all missing from the lower-cased names of the dialog's
\* ingredient list; the call carries that name and that list.
C23_ValidatorCalledOnlyForNewNames ==
    [][(Len(calls') = Len(calls) + 1 /\ calls'[Len(calls')].kind = "validate") =>
          LET typed == trim(ingredientName)
              lower == toLowerCase(typed)
              snapshot == {toLowerCase(ingredientList[i]) : i \in 1..Len(ingredientList)}
          IN  /\ typed # <<>>
              /\ Len(typed) <= MaxNameLength
              /\ {lower, pluralize(lower), singular(lower)} \cap snapshot = {}
              /\ calls'[Len(calls')].ingredientName = ingredientName
              /\ calls'[Len(calls')].ingredientList = ingredientList]_vars

\* the call for "Rice" is outstanding, Egg and Flour being in the list
C23_Witness ==
    /\ calls # <<>>
    /\ calls[1].kind = "validate"
    /\ trim(calls[1].ingredientName) = Rice
    /\ {Egg, Flour} \subseteq SeqToSet(calls[1].ingredientList)

\* C24: the selection never holds an id twice; a click on a recipe adds its
\* id when absent and removes it when present; Select All makes the
\* selection the ids of the generated recipes; Unselect All empties it; a
\* move between steps 3 and 4 leaves it as it is.
C24_SelectionIsASet ==
    [][LET selected == SeqToSet(selectedRecipeIds)
           selectedAfter == SeqToSet(selectedRecipeIds')
       IN  /\ Len(selectedRecipeIds') = Cardinality(selectedAfter)
           /\ ToggleRecipe =>
                 \E i \in 1..Len(generatedRecipes) :
                    LET id == generatedRecipes[i].openaiPromptId
                    IN  selectedAfter = IF id \in selected THEN selected \ {id}
                                        ELSE selected \cup {id}
           /\ handleSelectAll =>
                 selectedAfter = {generatedRecipes[i].openaiPromptId :
                                     i \in 1..Len(generatedRecipes)}
           /\ UnselectAll => selectedAfter = {}
           /\ (page' = "CreateRecipe" /\ {step, step'} = {3, 4}) =>
                 selectedRecipeIds' = selectedRecipeIds]_vars

\* one of two generated recipes is selected, seen on step 4
C24_Witness ==
    /\ StepShown(4)
    /\ Len(generatedRecipes) = 2
    /\ selectedRecipeIds = <<generatedRecipes[2].openaiPromptId>>

\* C25: the names in ingredients are pairwise distinct, whether the
\* ingredients were picked from the list or came with Clone Ingredients.
C25_IngredientNamesDistinct ==
    \A i, j \in 1..Len(ingredients) :
       i # j => ingredients[i].name # ingredients[j].name

\* C29: while step 0 is shown, every ingredient of the catalog, the ones the
\* validator accepted on this page included, is in the ingredient list of the
\* form, so that it can be picked and is found by the dialog's lookup.
C29_CreatedIngredientStays ==
    StepShown(0) => catalog \subseteq SeqToSet(ingredientList)

(***************************************************************************)
(* utils/utils.ts: filterResults and updateRecipeList                      *)
(***************************************************************************)
\* longest recipe list the helpers are given
MaxListLen == 3

\* JavaScript's null and undefined
Null == [null |-> TRUE]
Undefined == "undefined"

UserIds == {"u1", "u2"}

\* a user document as populate() returns it
UserDoc(id) ==
    [_id |-> id,
     name |-> (IF id = "u1" THEN "Ann" ELSE "Bob"),
     image |-> (IF id = "u1" THEN "ann.png" ELSE "bob.png"),
     email |-> (IF id = "u1" THEN "ann@mail" ELSE "bob@mail")]

\* ({ _id, name, image }) => ({ _id, name, image })
PublicUser(user) == [_id |-> user._id, name |-> user.name, image |-> user.image]

\* a recipe document after populate(['owner', 'likedBy']).lean()
PopulatedRecipe(id, name, owner, likedBy) ==
    [_id |-> id, name |-> name, owner |-> UserDoc(owner),
     likedBy |-> [j \in 1..Len(likedBy) |-> UserDoc(likedBy[j])]]

\* mutation: flags a record already carries are kept
filterResultsKeepingFlags(recipes, userId) ==
    [i \in 1..Len(recipes) |->
       LET recipe == recipes[i]
       IN  [k \in DOMAIN recipe \cup {"owner", "likedBy", "owns", "liked"} |->
              CASE k = "owner" -> PublicUser(recipe.owner)
                [] k = "likedBy" ->
                     [j \in 1..Len(recipe.likedBy) |-> PublicUser(recipe.likedBy[j])]
                [] k = "owns" -> IF "owns" \in DOMAIN recipe THEN recipe.owns
                                 ELSE recipe.owner._id = userId
                [] k = "liked" -> IF "liked" \in DOMAIN recipe THEN recipe.liked
                                  ELSE \E j \in 1..Len(recipe.likedBy) :
                                          recipe.likedBy[j]._id = userId
                [] OTHER -> recipe[k]]]

\* recipes.map((recipe) => ({ ...recipe, owner, likedBy, owns, liked }))
filterResults(recipes, userId) ==
    [i \in 1..Len(recipes) |->
       LET recipe == recipes[i]
       IN  [k \in DOMAIN recipe \cup {"owner", "likedBy", "owns", "liked"} |->
              CASE k = "owner" -> PublicUser(recipe.owner)
                [] k = "likedBy" ->
                     [j \in 1..Len(recipe.likedBy) |-> PublicUser(recipe.likedBy[j])]
                [] k = "owns" -> recipe.owner._id = userId
                [] k = "liked" ->
                     \E j \in 1..Len(recipe.likedBy) : recipe.likedBy[j]._id = userId
                [] OTHER -> recipe[k]]]

\* value._id, which is undefined on a value that has no such property
IdOf(value) == IF "_id" \in DOMAIN value THEN value._id ELSE Undefined

\* Array.prototype.findIndex with the predicate p._id === id: the 0-based
\* index of the first match, or -1
findIndex(list, id) ==
    IF \E i \in 1..Len(list) : IdOf(list[i]) = id
    THEN (CHOOSE i \in 1..Len(list) :
             IdOf(list[i]) = id /\ \A j \in 1..(i - 1) : IdOf(list[j]) # id) - 1
    ELSE -1

\* how Array.prototype.slice reads an index: a negative one counts from the end
sliceIndex(len, k) ==
    IF k < 0 THEN (IF len + k < 0 THEN 0 ELSE len + k)
    ELSE IF k > len THEN len ELSE k

\* list.slice(begin, end), with 0-based begin and exclusive end
slice(list, begin, end) ==
    SubSeq(list, sliceIndex(Len(list), begin) + 1, sliceIndex(Len(list), end))

\* mutation: the updated recipe is put at the end of the list
updateRecipeListAppending(oldList, newRecipe, deleteId) ==
    LET indexOfUpdate == findIndex(oldList, IF newRecipe # Null THEN IdOf(newRecipe)
                                            ELSE deleteId)
    IN  IF newRecipe # Null
        THEN slice(oldList, 0, indexOfUpdate)
             \o slice(oldList, indexOfUpdate + 1, Len(oldList)) \o <<newRecipe>>
        ELSE slice(oldList, 0, indexOfUpdate)
             \o slice(oldList, indexOfUpdate + 1, Len(oldList))

updateRecipeList(oldList, newRecipe, deleteId) ==
    LET indexOfUpdate == findIndex(oldList, IF newRecipe # Null THEN IdOf(newRecipe)
                                            ELSE deleteId)
    IN  IF newRecipe # Null
        THEN slice(oldList, 0, indexOfUpdate) \o <<newRecipe>>
             \o slice(oldList, indexOfUpdate + 1, Len(oldList))
        ELSE slice(oldList, 0, indexOfUpdate)
             \o slice(oldList, indexOfUpdate + 1, Len(oldList))

(***************************************************************************)
(* SpecUtils: the helpers applied to bounded lists                         *)
(***************************************************************************)
RecipeIds == {"r1", "r2", "r3"}

\* the recipe documents the lists are made of: one liked by the other user,
\* one liked by nobody, one liked by its owner and the other user
PoolRecipe(id) ==
    CASE id = "r1" -> PopulatedRecipe("r1", "Omelette", "u1", <<"u2">>)
      [] id = "r2" -> PopulatedRecipe("r2", "Pancakes", "u2", <<>>)
      [] id = "r3" -> PopulatedRecipe("r3", "Custard", "u1", <<"u1", "u2">>)

RECURSIVE SeqsUpTo(_, _)
SeqsUpTo(S, n) ==
    IF n = 0 THEN {<<>>}
    ELSE LET shorter == SeqsUpTo(S, n - 1)
         IN  shorter \cup {Append(l, x) : l \in shorter, x \in S}

\* lists as Recipe.find().populate().lean() returns them; a list may hold an
\* id more than once
PopulatedLists == SeqsUpTo({PoolRecipe(id) : id \in RecipeIds}, MaxListLen)

\* the lists a page holds: the API's answer, projected for the session user
FilteredLists == {filterResults(l, u) : l \in PopulatedLists, u \in UserIds}

\* the recipe with the like of userId toggled, as api/like-recipe answers it
LikeToggled(id, userId) ==
    LET recipe == PoolRecipe(id)
        liked == \E j \in 1..Len(recipe.likedBy) : recipe.likedBy[j]._id = userId
        likedBy == IF liked
                   THEN SelectSeq(recipe.likedBy, LAMBDA l : l._id # userId)
                   ELSE Append(recipe.likedBy, UserDoc(userId))
    IN  filterResults(<<[recipe EXCEPT !.likedBy = likedBy]>>, userId)[1]

ListUpdates == {LikeToggled(id, u) : id \in RecipeIds, u \in UserIds}

InitUtils ==
    /\ recipeList \in PopulatedLists \cup FilteredLists
    /\ lastCall = NoCall
    /\ catalog = InitialCatalog
    /\ aiCount = 0
    /\ Mounted(aiCount, catalog, <<>>)
    /\ ApiIdle
    /\ HomeIdle

ApplyFilterResults ==
    /\ \E userId \in UserIds :
          lastCall' = [fn |-> "filterResults", recipes |-> recipeList, userId |-> userId,
                       result |-> filterResults(recipeList, userId)]
    /\ UNCHANGED <<recipeList, workflowVars, apiVars, homeVars>>

ApplyUpdateRecipeList ==
    /\ \E newRecipe \in ListUpdates \cup {Null}, deleteId \in RecipeIds \cup {Undefined} :
          lastCall' = [fn |-> "updateRecipeList", oldList |-> recipeList,
                       newRecipe |-> newRecipe, deleteId |-> deleteId,
                       result |-> updateRecipeList(recipeList, newRecipe, deleteId)]
    /\ UNCHANGED <<recipeList, workflowVars, apiVars, homeVars>>

NextUtils == ApplyFilterResults \/ ApplyUpdateRecipeList

SpecUtils == InitUtils /\ [][NextUtils]_vars

(***************************************************************************)
(* Properties of the helpers                                               *)
(***************************************************************************)
\* the id updateRecipeList looks for
TargetId == IF lastCall.newRecipe # Null THEN IdOf(lastCall.newRecipe) ELSE lastCall.deleteId

\* the positions of the entries of the old list that have the target id
TargetPositions ==
    {i \in 1..Len(lastCall.oldList) : IdOf(lastCall.oldList[i]) = TargetId}

\* C18: for a list that holds the target id exactly once, updateRecipeList
\* with a non-null updated recipe returns a list of the same length with that
\* entry replaced in place; with a null updated recipe and a deleteId it
\* returns a list one shorter without that entry; all other entries keep their
\* order, and the input list is left as it was.
C18_UpdateTouchesOnlyTheMatch ==
    (lastCall.fn = "updateRecipeList" /\ Cardinality(TargetPositions) = 1) =>
        LET oldList == lastCall.oldList
            result == lastCall.result
            at == CHOOSE i \in TargetPositions : TRUE
        IN  /\ recipeList = oldList
            /\ IF lastCall.newRecipe # Null
               THEN /\ Len(result) = Len(oldList)
                    /\ result[at] = lastCall.newRecipe
                    /\ \A j \in 1..Len(oldList) : j # at => result[j] = oldList[j]
               ELSE /\ Len(result) = Len(oldList) - 1
                    /\ \A j \in 1..(at - 1) : result[j] = oldList[j]
                    /\ \A j \in at..Len(result) : result[j] = oldList[j + 1]
                    /\ \A j \in 1..Len(result) : IdOf(result[j]) # TargetId

\* an updated recipe has replaced the middle entry of a list of three
C18_Witness ==
    /\ lastCall.fn = "updateRecipeList"
    /\ lastCall.newRecipe # Null
    /\ Len(lastCall.oldList) = 3
    /\ TargetPositions = {2}
    /\ lastCall.result[2] = lastCall.newRecipe
    /\ lastCall.oldList[2] # lastCall.newRecipe

\* C19: when no entry of the list has the target id, updateRecipeList returns
\* a list equal to its input.
C19_NoMatchIsNoOp ==
    (lastCall.fn = "updateRecipeList" /\ TargetPositions = {}) =>
        lastCall.result = lastCall.oldList

\* C20: filterResults sets owns exactly for the records the user owns and
\* liked exactly for the records the user is in likedBy of, reduces owner and
\* every likedBy entry to _id, name and image; applied to its own output with
\* the same user it returns that output, and with another user it returns
\* what it returns on the original records for that user.
C20_FilterResultsProjects ==
    lastCall.fn = "filterResults" =>
        LET recipes == lastCall.recipes
            result == lastCall.result
        IN  /\ Len(result) = Len(recipes)
            /\ \A i \in 1..Len(recipes) :
                  /\ result[i].owns = (recipes[i].owner._id = lastCall.userId)
                  /\ result[i].liked =
                        (lastCall.userId \in {recipes[i].likedBy[j]._id :
                                                 j \in 1..Len(recipes[i].likedBy)})
                  /\ result[i].owner = PublicUser(recipes[i].owner)
                  /\ DOMAIN result[i].owner = {"_id", "name", "image"}
                  /\ Len(result[i].likedBy) = Len(recipes[i].likedBy)
                  /\ \A j \in 1..Len(recipes[i].likedBy) :
                        /\ result[i].likedBy[j] = PublicUser(recipes[i].likedBy[j])
                        /\ DOMAIN result[i].likedBy[j] = {"_id", "name", "image"}
                  /\ result[i]._id = recipes[i]._id
                  /\ result[i].name = recipes[i].name
            /\ filterResults(result, lastCall.userId) = result
            /\ \A v \in UserIds : filterResults(result, v) = filterResults(recipes, v)

\* filterResults was applied to a list projected for the other user, and both
\* flags of an entry changed
C20_Witness ==
    /\ lastCall.fn = "filterResults"
    /\ \E i \in 1..Len(lastCall.recipes) :
          /\ "owns" \in DOMAIN lastCall.recipes[i]
          /\ lastCall.recipes[i].owns # lastCall.result[i].owns
          /\ lastCall.recipes[i].liked # lastCall.result[i].liked

(***************************************************************************)
(* pages/api: what the handlers do on the collections                      *)
(***************************************************************************)
\* largest number of recipe documents inserted in a run of the model
MaxDocs == 2

\* getServerSession(req, res, authOptions) returns null
NoSession == "none"

\* the _id of the n-th recipe document
RecipeObjectIds == <<"r1", "r2", "r3", "r4">>

\* a well-formed id no document has, and a text that is no ObjectId
AbsentId == "r9"
InvalidId == "not-an-id"

\* mongoose.Types.ObjectId.isValid(recipeId)
ObjectIdIsValid(recipeId) == recipeId # InvalidId

\* the recipe ids requests of the model carry
RequestedIds == {RecipeObjectIds[n] : n \in 1..MaxDocs} \cup {AbsentId, InvalidId}

\* a request of a client with that session, not answered yet
Request(session) == [NoRequest EXCEPT !.session = session]

\* the handler of the request took this step: sent is the number of recipes
\* of the body of a save request, status is the HTTP status the handler
\* answered with (0 while it has not answered), effects are the database
\* accesses and external calls it has made
Answer(request, status, effects) ==
    lastRequest' = [request EXCEPT !.status = status, !.effects = effects]

\* aigenerated.countDocuments({ userId })
countDocuments(userId) ==
    Cardinality({i \in 1..Len(aigenerated) : aigenerated[i] = userId})

\* saveOpenaiResponses: aiGenerated.create(...), or the write fails and the
\* error is swallowed
saveOpenaiResponses(userId, logged) ==
    IF logged THEN Append(aigenerated, userId) ELSE aigenerated

\* generateRecipe: openaiPromptId: _id || 'null-prompt-id'
openaiPromptIdOf(logged) ==
    IF logged THEN ObjectId(Len(aigenerated) + 1) ELSE NullPromptId

\* recipes.findById(recipeId): the documents with that _id, none or one
findById(db, recipeId) == {doc \in db : doc._id = recipeId}

\* recipe.likedBy.some((r) => r.toString() === session.user.id)
LikedBy(recipe, userId) == \E i \in 1..Len(recipe.likedBy) : recipe.likedBy[i] = userId

\* liked ? { $pull: { likedBy } } : { $addToSet: { likedBy } }
likeUpdate(liked, userId) ==
    IF liked THEN [op |-> "$pull", likedBy |-> userId]
    ELSE [op |-> "$addToSet", likedBy |-> userId]

\* mutation: $addToSet writes an array that holds the user only
applyUpdateOverwriting(likedBy, update) ==
    IF update.op = "$pull" THEN SelectSeq(likedBy, LAMBDA u : u # update.likedBy)
    ELSE <<update.likedBy>>

\* MongoDB's $pull and $addToSet on an array
applyUpdate(likedBy, update) ==
    IF update.op = "$pull" THEN SelectSeq(likedBy, LAMBDA u : u # update.likedBy)
    ELSE IF \E i \in 1..Len(likedBy) : likedBy[i] = update.likedBy THEN likedBy
    ELSE Append(likedBy, update.likedBy)

\* recipes.findByIdAndUpdate(recipeId, update): one atomic operation
findByIdAndUpdate(db, recipeId, update) ==
    {IF doc._id = recipeId THEN [doc EXCEPT !.likedBy = applyUpdate(@, update)] ELSE doc :
        doc \in db}

\* recipes.findByIdAndDelete(recipeId)
findByIdAndDelete(db, recipeId) == {doc \in db : doc._id # recipeId}

\* mutation: the owner is not compared with the session user
deleteAllowedForAnyone(session, recipe) == session # NoSession

\* session.user.id === recipe.owner.toString()
deleteAllowed(session, recipe) == session = recipe.owner

\* one more completed toggle of the user on the recipe
ToggleCounted(recipeId, userId) ==
    IF <<recipeId, userId>> \in oddToggles THEN oddToggles \ {<<recipeId, userId>>}
    ELSE oddToggles \cup {<<recipeId, userId>>}

\* the bookkeeping of a recipe that is gone
Forgotten(pairs, recipeId) == {pair \in pairs : pair[1] # recipeId}

\* populate(['owner', 'likedBy']).lean(), in insertion order
Populated(db) ==
    LET present == SelectSeq(RecipeObjectIds, LAMBDA id : findById(db, id) # {})
    IN  [i \in 1..Len(present) |->
           LET doc == CHOOSE d \in db : d._id = present[i]
           IN  PopulatedRecipe(doc._id, doc.name, doc.owner, doc.likedBy)]

\* s.split('-')[0]: the text before the first '-'
RECURSIVE splitFirst(_)
splitFirst(s) ==
    IF s = <<>> \/ Head(s) = "-" THEN <<>> ELSE <<Head(s)>> \o splitFirst(Tail(s))

fallbackImg == <<"/logo.svg">>

\* `https://smart-recipe-generator.s3.amazonaws.com/${location}`
S3Link(location) == <<"https://smart-recipe-generator.s3.amazonaws.com/">> \o location

\* uploadImagesToS3 answers with one result per image: uploadImageToS3
\* catches every error, so the results are never null
getS3Link(uploadResults, location) ==
    LET filteredResult == SelectSeq(uploadResults, LAMBDA result : result.location = location)
    IN  IF filteredResult # <<>> /\ filteredResult[1].uploaded THEN S3Link(location)
        ELSE fallbackImg

\* recipes.map((r) => ({ ...r, owner, imgLink, openaiPromptId })), and the
\* _id and the default likedBy the schema gives the document
updatedRecipe(r, userId, uploadResults, id) ==
    [_id |-> id, name |-> r.name, owner |-> userId,
     imgLink |-> getS3Link(uploadResults, r.openaiPromptId),
     openaiPromptId |-> splitFirst(r.openaiPromptId),
     likedBy |-> <<>>]

\* mutation: a failed insert leaves the first document in the collection
insertManyPartial(db, docs, insertOk) ==
    IF insertOk THEN db \cup docs
    ELSE db \cup {doc \in docs : doc._id = RecipeObjectIds[recipeCount + 1]}

\* recipe.insertMany(updatedRecipes): mongoose validates every document
\* before it sends one insert command; a failure inserts nothing
insertMany(db, docs, insertOk) == IF insertOk THEN db \cup docs ELSE db

(***************************************************************************)
(* SpecApi: the eight endpoints, each request served to its answer before  *)
(* the next one is taken, from a client with or without a session          *)
(***************************************************************************)
ApiSessions == {NoSession, "u1"}

\* req.body.ingredients of the generation requests
ApiIngredientLists == {<<>>, <<Egg, Flour, Rice>>}

\* req.body.ingredientName of the validation requests
ApiIngredientNames == {<<>>, Rice}

\* req.body of the save requests: no recipes at all, or the recipes a client
\* selected from a batch it was given, tagged `${batch id}-${index}`
SaveBodies ==
    {[hasRecipes |-> FALSE, batch |-> <<>>, recipes |-> <<>>]} \cup
    {[hasRecipes |-> TRUE, batch |-> b,
      recipes |-> SelectSeq(tagRecipes(MaxRecipes, b),
                            LAMBDA r : \E i \in chosen : tagRecipes(MaxRecipes, b)[i] = r)] :
        b \in batches, chosen \in (SUBSET (1..MaxRecipes)) \ {{}}}

\* what the handlers of SpecApi leave alone
apiUntouched == <<running, overlapped, workflowButCatalog, utilVars, homeVars, s3Vars>>

InitApi ==
    /\ ApiIdle
    /\ UtilsIdle
    /\ HomeIdle
    /\ catalog = InitialCatalog
    /\ aiCount = 0
    /\ Mounted(aiCount, catalog, <<>>)

\* the method the handler allows, and one it does not
MethodsTried(allowed) == {allowed, IF allowed = "GET" THEN "POST" ELSE "GET"}

\* api/get-recipes
GetRecipes ==
    \E method \in MethodsTried("GET"), session \in ApiSessions :
       LET request == Request(session)
       IN  /\ IF method # "GET" THEN Answer(request, 405, {})
              ELSE IF session = NoSession THEN Answer(request, 401, {})
              ELSE Answer(request, 200, {"dbRead"})
           /\ UNCHANGED <<recipeDb, recipeCount, aigenerated, batches, oddToggles, catalog,
                          apiUntouched>>

\* api/profile
GetProfile ==
    \E method \in MethodsTried("GET"), session \in ApiSessions :
       LET request == Request(session)
       IN  /\ IF method # "GET" THEN Answer(request, 405, {})
              ELSE IF session = NoSession THEN Answer(request, 401, {})
              ELSE Answer(request, 200, {"dbRead"})
           /\ UNCHANGED <<recipeDb, recipeCount, aigenerated, batches, oddToggles, catalog,
                          apiUntouched>>

\* mutation: the user's documents are counted before the session is looked at
GetIngredientsCountingFirst ==
    \E session \in ApiSessions :
       LET request == Request(session)
       IN  /\ IF session = NoSession THEN Answer(request, 401, {"dbRead"})
              ELSE Answer(request, 200, {"dbRead"})
           /\ UNCHANGED <<recipeDb, recipeCount, aigenerated, batches, oddToggles, catalog,
                          apiUntouched>>

\* api/get-ingredients: no method check
GetIngredients ==
    \E session \in ApiSessions :
       LET request == Request(session)
       IN  /\ IF session = NoSession THEN Answer(request, 401, {})
              ELSE Answer(request, 200, {"dbRead"})
           /\ UNCHANGED <<recipeDb, recipeCount, aigenerated, batches, oddToggles, catalog,
                          apiUntouched>>

\* api/generate-recipes
GenerateRecipes ==
    \E method \in MethodsTried("POST"), session \in ApiSessions, list \in ApiIngredientLists :
       LET request == Request(session)
       IN  /\ IF method # "POST"
              THEN Answer(request, 405, {}) /\ UNCHANGED <<aigenerated, batches>>
              ELSE IF session = NoSession
              THEN Answer(request, 401, {}) /\ UNCHANGED <<aigenerated, batches>>
              ELSE IF Len(list) = 0
              THEN Answer(request, 400, {}) /\ UNCHANGED <<aigenerated, batches>>
              ELSE \E outcome \in GenOutcomes, logged \in BOOLEAN :
                      /\ logged => (outcome # "throw" /\ Len(aigenerated) < MaxAiCalls)
                      /\ IF outcome = "throw"
                         THEN Answer(request, 500, {"ai"}) /\ UNCHANGED <<aigenerated, batches>>
                         ELSE /\ aigenerated' = saveOpenaiResponses(session, logged)
                              /\ batches' = IF outcome = "array"
                                            THEN batches \cup {openaiPromptIdOf(logged)}
                                            ELSE batches
                              /\ Answer(request, 200, {"ai", "dbWrite"})
           /\ UNCHANGED <<recipeDb, recipeCount, oddToggles, catalog, apiUntouched>>

\* api/validate-ingredient
ValidateIngredient ==
    \E method \in MethodsTried("POST"), session \in ApiSessions, name \in ApiIngredientNames :
       LET request == Request(session)
           formatted == formattedIngredientName(name)
       IN  /\ IF method # "POST"
              THEN Answer(request, 405, {}) /\ UNCHANGED <<aigenerated, catalog>>
              ELSE IF session = NoSession
              THEN Answer(request, 401, {}) /\ UNCHANGED <<aigenerated, catalog>>
              ELSE IF Len(name) = 0
              THEN Answer(request, 400, {}) /\ UNCHANGED <<aigenerated, catalog>>
              ELSE \E outcome \in ValidateOutcomes, logged \in BOOLEAN :
                      /\ logged => (outcome # "throw" /\ Len(aigenerated) < MaxAiCalls)
                      /\ IF outcome = "throw"
                         THEN Answer(request, 500, {"ai"}) /\ UNCHANGED <<aigenerated, catalog>>
                         ELSE /\ aigenerated' = saveOpenaiResponses(session, logged)
                              /\ IF outcome = "unparsable"
                                 THEN Answer(request, 500, {"ai", "dbWrite"})
                                      /\ UNCHANGED catalog
                                 ELSE IF outcome = "null"
                                 THEN Answer(request, 200, {"ai", "dbWrite"})
                                      /\ UNCHANGED catalog
                                 ELSE /\ catalog' = IF outcome = "valid"
                                                    THEN catalog \cup {formatted}
                                                    ELSE catalog
                                      /\ Answer(request, 200, {"ai", "dbWrite", "dbRead"})
           /\ UNCHANGED <<recipeDb, recipeCount, batches, oddToggles, apiUntouched>>

\* api/save-recipes
SaveRecipes ==
    \E method \in MethodsTried("POST"), session \in ApiSessions, body \in SaveBodies :
       LET recipes == body.recipes
           request == [Request(session) EXCEPT !.sent = Len(recipes)]
       IN  /\ recipeCount + Len(recipes) <= MaxDocs
           /\ IF method # "POST"
              THEN Answer(Request(session), 405, {})
                   /\ UNCHANGED <<recipeDb, recipeCount, aigenerated>>
              ELSE IF session = NoSession
              THEN Answer(Request(session), 401, {})
                   /\ UNCHANGED <<recipeDb, recipeCount, aigenerated>>
              ELSE IF ~body.hasRecipes
              THEN \* recipes.map throws a TypeError
                   Answer(request, 500, {}) /\ UNCHANGED <<recipeDb, recipeCount, aigenerated>>
              ELSE \/ \* generateImages: an image request fails, Promise.all rejects
                      /\ Answer(request, 500, {"ai"})
                      /\ UNCHANGED <<recipeDb, recipeCount, aigenerated>>
                   \/ \* generateImages: an image response holds no url, after the log
                      \E logged \in BOOLEAN :
                         /\ logged => Len(aigenerated) < MaxAiCalls
                         /\ aigenerated' = saveOpenaiResponses(session, logged)
                         /\ Answer(request, 500, {"ai", "dbWrite"})
                         /\ UNCHANGED <<recipeDb, recipeCount>>
                   \/ \E logged \in BOOLEAN, uploaded \in [1..Len(recipes) -> BOOLEAN],
                         insertOk \in BOOLEAN :
                         LET uploadResults ==
                                 [i \in 1..Len(recipes) |->
                                     [location |-> recipes[i].openaiPromptId,
                                      uploaded |-> uploaded[i]]]
                             updatedRecipes ==
                                 {updatedRecipe(recipes[i], session, uploadResults,
                                                RecipeObjectIds[recipeCount + i]) :
                                     i \in 1..Len(recipes)}
                         IN  /\ logged => Len(aigenerated) < MaxAiCalls
                             /\ aigenerated' = saveOpenaiResponses(session, logged)
                             /\ recipeDb' = insertMany(recipeDb, updatedRecipes, insertOk)
                             /\ recipeCount' = IF insertOk THEN recipeCount + Len(recipes)
                                               ELSE recipeCount
                             /\ Answer(request, IF insertOk THEN 200 ELSE 500,
                                       {"ai", "dbWrite", "s3"})
           /\ UNCHANGED <<batches, oddToggles, catalog, apiUntouched>>

\* api/like-recipe
LikeRecipe ==
    \E method \in MethodsTried("PUT"), session \in ApiSessions, recipeId \in RequestedIds :
       LET request == Request(session)
           found == findById(recipeDb, recipeId)
       IN  /\ IF method # "PUT"
              THEN Answer(request, 405, {}) /\ UNCHANGED <<recipeDb, oddToggles>>
              ELSE IF session = NoSession
              THEN Answer(request, 401, {}) /\ UNCHANGED <<recipeDb, oddToggles>>
              ELSE IF ~ObjectIdIsValid(recipeId)
              THEN Answer(request, 400, {}) /\ UNCHANGED <<recipeDb, oddToggles>>
              ELSE IF found = {}
              THEN Answer(request, 200, {"dbRead"}) /\ UNCHANGED <<recipeDb, oddToggles>>
              ELSE LET recipe == CHOOSE doc \in found : TRUE
                       update == likeUpdate(LikedBy(recipe, session), session)
                   IN  /\ recipeDb' = findByIdAndUpdate(recipeDb, recipeId, update)
                       /\ oddToggles' = ToggleCounted(recipeId, session)
                       /\ Answer(request, 200, {"dbRead", "dbWrite"})
           /\ UNCHANGED <<recipeCount, aigenerated, batches, catalog, apiUntouched>>

\* api/delete-recipe
DeleteRecipe ==
    \E method \in MethodsTried("DELETE"), session \in ApiSessions, recipeId \in RequestedIds :
       LET request == Request(session)
           found == findById(recipeDb, recipeId)
       IN  /\ IF method # "DELETE"
              THEN Answer(request, 405, {}) /\ UNCHANGED <<recipeDb, oddToggles>>
              ELSE IF session = NoSession
              THEN Answer(request, 401, {}) /\ UNCHANGED <<recipeDb, oddToggles>>
              ELSE IF ~ObjectIdIsValid(recipeId)
              THEN Answer(request, 400, {}) /\ UNCHANGED <<recipeDb, oddToggles>>
              ELSE IF found = {}
              THEN Answer(request, 400, {"dbRead"}) /\ UNCHANGED <<recipeDb, oddToggles>>
              ELSE IF ~deleteAllowed(session, CHOOSE doc \in found : TRUE)
              THEN Answer(request, 400, {"dbRead"}) /\ UNCHANGED <<recipeDb, oddToggles>>
              ELSE /\ recipeDb' = findByIdAndDelete(recipeDb, recipeId)
                   /\ oddToggles' = Forgotten(oddToggles, recipeId)
                   /\ Answer(request, 200, {"dbRead", "dbWrite"})
           /\ UNCHANGED <<recipeCount, aigenerated, batches, catalog, apiUntouched>>

NextApi ==
    \/ GetRecipes \/ GetProfile \/ GetIngredients \/ GenerateRecipes
    \/ ValidateIngredient \/ SaveRecipes \/ LikeRecipe \/ DeleteRecipe

SpecApi == InitApi /\ [][NextApi]_vars

(***************************************************************************)
(* Properties of the API handlers                                          *)
(***************************************************************************)
\* C11: for every batch id api/generate-recipes has answered with and every
\* index, the recipe saved from the candidate tagged '<batch id>-<index>'
\* (its image location is that tag) is stored with openaiPromptId equal to
\* the batch id.
C11_SaveStoresTheBatchId ==
    \A doc \in recipeDb, b \in batches, idx \in 0..(MaxRecipes - 1) :
       doc.imgLink = S3Link(clientKey(b, idx)) => doc.openaiPromptId = b

\* C12: no two persisted recipes have the same openaiPromptId.
C12_PromptIdUniquePerRecipe ==
    \A d1 \in recipeDb, d2 \in recipeDb :
       d1._id # d2._id => d1.openaiPromptId # d2.openaiPromptId

\* C15: a request without a session is answered with a rejection by every
\* endpoint, and handling it reads and writes no collection and calls neither
\* the AI service nor the image storage.
C15_NoSessionNoWork ==
    [][lastRequest'.session = NoSession =>
          /\ lastRequest'.status \in {401, 405}
          /\ lastRequest'.effects = {}
          /\ UNCHANGED <<recipeDb, recipeCount, aigenerated, batches, catalog>>]_vars

\* a request without a session was rejected while the collections held data
C15_Witness ==
    /\ lastRequest.session = NoSession
    /\ lastRequest.status = 401
    /\ recipeDb # {}
    /\ aigenerated # <<>>

MaxInFlight == 2

\* a recipe document as save-recipes stored it
StoredRecipe(id, owner) ==
    [_id |-> id, name |-> RecipeNames[1], owner |-> owner, imgLink |-> fallbackImg,
     openaiPromptId |-> splitFirst(clientKey(ObjectId(1), 0)), likedBy |-> <<>>]

\* the recipe ids like and delete requests of the model carry
LikeRecipeIds == {"r1", "r2", AbsentId, InvalidId}

likesUntouched ==
    <<recipeCount, aigenerated, batches, catalog, workflowButCatalog, utilVars, homeVars,
      s3Vars>>

InitLikes ==
    /\ recipeDb = {StoredRecipe("r1", "u1"), StoredRecipe("r2", "u2")}
    /\ recipeCount = 2
    /\ aigenerated = <<>>
    /\ batches = {}
    /\ running = <<>>
    /\ oddToggles = {}
    /\ overlapped = {}
    /\ lastRequest = NoRequest
    /\ S3Idle
    /\ UtilsIdle
    /\ HomeIdle
    /\ catalog = InitialCatalog
    /\ aiCount = 0
    /\ Mounted(aiCount, catalog, <<>>)

\* an invocation between its findById and its write
Invocation(handler, session, recipeId, liked) ==
    [handler |-> handler, session |-> session, recipeId |-> recipeId, liked |-> liked]

\* the user has a like request for the recipe running already
Overlaps(session, recipeId) ==
    \E i \in 1..Len(running) :
       /\ running[i].handler = "like"
       /\ running[i].session = session
       /\ running[i].recipeId = recipeId

\* toggleLike up to the findById and the snapshot liked
LikeFindOf(session, recipeId) ==
    LET request == Request(session)
        found == findById(recipeDb, recipeId)
    IN  /\ Len(running) < MaxInFlight
        /\ IF ~ObjectIdIsValid(recipeId)
           THEN Answer(request, 400, {}) /\ UNCHANGED <<running, overlapped>>
           ELSE IF found = {}
           THEN Answer(request, 200, {"dbRead"}) /\ UNCHANGED <<running, overlapped>>
           ELSE LET recipe == CHOOSE doc \in found : TRUE
                IN  /\ running' = Append(running, Invocation("like", session, recipeId,
                                                             LikedBy(recipe, session)))
                    /\ overlapped' = IF Overlaps(session, recipeId)
                                     THEN overlapped \cup {<<recipeId, session>>}
                                     ELSE overlapped
                    /\ Answer(request, 0, {"dbRead"})
        /\ UNCHANGED <<recipeDb, oddToggles, likesUntouched>>

LikeFind == \E session \in UserIds, recipeId \in LikeRecipeIds : LikeFindOf(session, recipeId)

\* toggleLike from findByIdAndUpdate on
LikeUpdate ==
    \E i \in 1..Len(running) :
       LET invocation == running[i]
           request == Request(invocation.session)
           update == likeUpdate(invocation.liked, invocation.session)
       IN  /\ invocation.handler = "like"
           /\ running' = RemoveAt(running, i)
           /\ IF findById(recipeDb, invocation.recipeId) = {}
              THEN \* updatedRecipe is null: res.end(...)
                   Answer(request, 200, {"dbRead"}) /\ UNCHANGED <<recipeDb, oddToggles>>
              ELSE /\ recipeDb' = findByIdAndUpdate(recipeDb, invocation.recipeId, update)
                   /\ oddToggles' = ToggleCounted(invocation.recipeId, invocation.session)
                   /\ Answer(request, 200, {"dbRead", "dbWrite"})
           /\ UNCHANGED <<overlapped, likesUntouched>>

\* delete-recipe up to the ownership test
DeleteFindOf(session, recipeId) ==
    LET request == Request(session)
        found == findById(recipeDb, recipeId)
    IN  /\ Len(running) < MaxInFlight
        /\ IF ~ObjectIdIsValid(recipeId)
           THEN Answer(request, 400, {}) /\ UNCHANGED running
           ELSE IF found = {}
           THEN Answer(request, 400, {"dbRead"}) /\ UNCHANGED running
           ELSE IF ~deleteAllowed(session, CHOOSE doc \in found : TRUE)
           THEN Answer(request, 400, {"dbRead"}) /\ UNCHANGED running
           ELSE /\ running' = Append(running, Invocation("delete", session, recipeId, FALSE))
                /\ Answer(request, 0, {"dbRead"})
        /\ UNCHANGED <<recipeDb, oddToggles, overlapped, likesUntouched>>

DeleteFind ==
    \E session \in UserIds, recipeId \in LikeRecipeIds : DeleteFindOf(session, recipeId)

\* delete-recipe from findByIdAndDelete on
DeleteRemove ==
    \E i \in 1..Len(running) :
       LET invocation == running[i]
       IN  /\ invocation.handler = "delete"
           /\ running' = RemoveAt(running, i)
           /\ recipeDb' = findByIdAndDelete(recipeDb, invocation.recipeId)
           /\ oddToggles' = Forgotten(oddToggles, invocation.recipeId)
           /\ Answer(Request(invocation.session), 200, {"dbRead", "dbWrite"})
           /\ UNCHANGED <<overlapped, likesUntouched>>

NextLikes == LikeFind \/ LikeUpdate \/ DeleteFind \/ DeleteRemove

SpecLikes == InitLikes /\ [][NextLikes]_vars

(***************************************************************************)
(* Properties of concurrent like and delete requests                       *)
(***************************************************************************)
\* the user never had two like requests of their own for the recipe running
\* at once
OneAtATime(recipeId, userId) == <<recipeId, userId>> \notin overlapped

NoDuplicates(likedBy) ==
    \A i \in 1..Len(likedBy), j \in 1..Len(likedBy) : likedBy[i] = likedBy[j] => i = j

\* C13: however the like requests of different users on a recipe interleave,
\* a user is in the recipe's likedBy exactly when the user completed an odd
\* number of toggles on it, and nobody is in likedBy twice.
C13_NoToggleLost ==
    \A doc \in recipeDb :
       /\ NoDuplicates(doc.likedBy)
       /\ \A userId \in UserIds :
             OneAtATime(doc._id, userId) =>
                (LikedBy(doc, userId) <=> <<doc._id, userId>> \in oddToggles)

\* the toggle of one user was applied while the request of the other user on
\* the same recipe was between its findById and its findByIdAndUpdate
C13_Witness ==
    \E doc \in recipeDb :
       /\ doc.likedBy = <<"u2">>
       /\ \E i \in 1..Len(running) : running[i] = Invocation("like", "u1", doc._id, FALSE)
       /\ lastRequest.session = "u2"
       /\ lastRequest.status = 200
       /\ "dbWrite" \in lastRequest.effects
       /\ overlapped = {}

\* C14: a recipe leaves the collection only in a step of a request of its
\* owner; a delete request of another user, for a recipe that does not exist
\* or with an invalid id is answered 400, goes no further and changes no
\* document.
C14_OnlyTheOwnerDeletes ==
    [][/\ \A doc \in recipeDb :
             findById(recipeDb', doc._id) = {} =>
                lastRequest'.session = doc.owner /\ lastRequest'.status = 200
       /\ \A session \in UserIds, recipeId \in LikeRecipeIds :
             DeleteFindOf(session, recipeId) =>
                /\ recipeDb' = recipeDb
                /\ (\A doc \in findById(recipeDb, recipeId) : doc.owner # session) =>
                      lastRequest'.status = 400 /\ running' = running]_vars

\* the owner's recipe is gone, the other user's delete request for the other
\* recipe was rejected, and a request is still running
C14_Witness ==
    /\ findById(recipeDb, "r1") = {}
    /\ findById(recipeDb, "r2") # {}
    /\ lastRequest.session = "u1"
    /\ lastRequest.status = 400
    /\ lastRequest.effects = {"dbRead"}
    /\ running # <<>>

\* C28: for every recipe and user with no like request of the user on the
\* recipe in flight, the user is in likedBy exactly when the user completed
\* an odd number of toggles on it, whether or not the user's requests
\* overlapped.
C28_EveryToggleFlips ==
    \A doc \in recipeDb, userId \in UserIds :
       ~Overlaps(userId, doc._id) =>
          (LikedBy(doc, userId) <=> <<doc._id, userId>> \in oddToggles)

(***************************************************************************)
(* utils/utils.ts getFilteredRecipes and the search box of the Home page:  *)
(* SpecSearch                                                              *)
(***************************************************************************)
\* null where a string is expected: a sequence that is no text
NullString == <<"null">>

\* String.prototype.includes
includes(s, q) == \E i \in 0..(Len(s) - Len(q)) : SubSeq(s, i + 1, i + Len(q)) = q

\* mutation: an empty query is matched against the entries, and matches none
getFilteredRecipesFilteringEmpty(recipes, search) ==
    IF search = NullString THEN recipes
    ELSE SelectSeq(recipes, LAMBDA r : search # <<>> /\ includes(toLowerCase(r.name), search))

getFilteredRecipes(recipes, search) ==
    IF search = NullString \/ search = <<>> THEN recipes
    ELSE SelectSeq(recipes,
            LAMBDA r :
               LET isFoundInName == includes(toLowerCase(r.name), search)
                   isFoundInIngredients ==
                       SelectSeq(r.ingredients,
                                 LAMBDA ingredient : includes(toLowerCase(ingredient.name),
                                                              search))
                   isFoundInDiets ==
                       SelectSeq(r.dietaryPreference,
                                 LAMBDA diet : includes(toLowerCase(diet), search))
               IN  isFoundInName \/ Len(isFoundInIngredients) # 0 \/ Len(isFoundInDiets) # 0)

Paleo == <<"P", "a", "l", "e", "o">>

\* the searchable fields of three recipes
Searchable(id) ==
    CASE id = "r1" -> [name |-> <<"F", "r", "i", "e", "d", " ", "R", "i", "c", "e">>,
                       ingredients |-> <<[name |-> Rice], [name |-> Egg]>>,
                       dietaryPreference |-> <<>>]
      [] id = "r2" -> [name |-> <<"F", "l", "a", "n">>,
                       ingredients |-> <<[name |-> Egg]>>,
                       dietaryPreference |-> <<Paleo>>]
      [] OTHER     -> [name |-> <<"P", "i", "e">>,
                       ingredients |-> <<[name |-> Flour]>>,
                       dietaryPreference |-> <<>>]

SearchRecipe(id) == [_id |-> id] @@ Searchable(id)

SearchLists == SeqsUpTo({SearchRecipe(id) : id \in RecipeIds}, MaxListLen)

\* the queries getFilteredRecipes is called with
Queries ==
    {NullString, <<>>, <<" ">>, <<"e">>, <<"F">>, <<"r", "i", "c", "e">>,
     <<"R", "i", "c", "e">>, <<"e", "g", "g">>, <<"p", "a", "l", "e", "o">>,
     <<"d", " ", "r">>}

\* the texts typed into the search input
TypedSearches == {<<>>, <<" ">>, <<"R", "i", "c", "e", " ">>, <<"p", "a", "l", "e", "o">>}

\* Home's useEffect([searchVal, latestRecipes])
searchEffect(val, latestRecipes, view) == IF trim(val) = <<>> THEN latestRecipes ELSE view

searchUntouched == <<recipeList, viewDeleteId, workflowVars, apiVars>>

InitSearch ==
    /\ recipeList \in SearchLists
    /\ lastCall = NoCall
    /\ searchVal = <<>>
    /\ searchView = searchEffect(searchVal, recipeList, <<>>)
    /\ viewDeleteId = ""
    /\ catalog = InitialCatalog
    /\ aiCount = 0
    /\ Mounted(aiCount, catalog, <<>>)
    /\ ApiIdle

ApplyGetFilteredRecipes ==
    /\ \E search \in Queries :
          lastCall' = [fn |-> "getFilteredRecipes", recipes |-> recipeList,
                       search |-> search,
                       result |-> getFilteredRecipes(recipeList, search)]
    /\ UNCHANGED <<searchVal, searchView, searchUntouched>>

\* the search input's onChange, and the clear button
setSearchVal ==
    \E val \in TypedSearches :
       /\ val # searchVal
       /\ searchVal' = val
       /\ searchView' = searchEffect(val, recipeList, searchView)
       /\ UNCHANGED <<lastCall, searchUntouched>>

\* the Search button
handleSearch ==
    /\ searchView' = getFilteredRecipes(recipeList, toLowerCase(trim(searchVal)))
    /\ UNCHANGED <<searchVal, lastCall, searchUntouched>>

NextSearch == ApplyGetFilteredRecipes \/ setSearchVal \/ handleSearch

SpecSearch == InitSearch /\ [][NextSearch]_vars

(***************************************************************************)
(* Properties of the search                                                *)
(***************************************************************************)
\* the lowercased query is part of the lowercased name, of a lowercased
\* ingredient name or of a lowercased dietary-preference tag
MatchesQuery(r, query) ==
    LET q == toLowerCase(query)
    IN  \/ includes(toLowerCase(r.name), q)
        \/ \E i \in 1..Len(r.ingredients) : includes(toLowerCase(r.ingredients[i].name), q)
        \/ \E i \in 1..Len(r.dietaryPreference) :
              includes(toLowerCase(r.dietaryPreference[i]), q)

C22_EmptyQueryShowsEverything ==
    /\ (lastCall.fn = "getFilteredRecipes" /\ lastCall.search \in {NullString, <<>>}) =>
          lastCall.result = lastCall.recipes
    /\ trim(searchVal) = <<>> => searchView = recipeList

\* a null query on a list of three, while the search input holds a blank
C22_Witness ==
    /\ lastCall.fn = "getFilteredRecipes"
    /\ lastCall.search = NullString
    /\ Len(lastCall.recipes) = 3
    /\ searchVal = <<" ">>
    /\ Len(searchView) = 3

(***************************************************************************)
(* The Home page of one user: SpecHome                                     *)
(*                                                                         *)
(* recipeList is Home's latestRecipes and searchView the cards on screen.  *)
(* The page's like and delete requests are served by toggleLike and        *)
(* delete-recipe; meanwhile the owner of the other recipes deletes them    *)
(* from another client.                                                    *)
(***************************************************************************)
\* the user whose Home page it is, and the owner of the recipes they can like
Viewer == "u2"
Owner == "u1"

\* Recipe.find().populate(...).lean() filtered for the session user; the name,
\* ingredients and dietaryPreference of the documents are those of Searchable
getRecipes(db, userId) ==
    LET found == filterResults(Populated(db), userId)
    IN  [k \in 1..Len(found) |-> Searchable(found[k]._id) @@ found[k]]

\* the body of res.end(`Recipe with Id: ${recipeId} not found... exiting`)
NotFoundText(recipeId) == [text |-> "not found... exiting", recipeId |-> recipeId]

\* a call_api('/api/like-recipe') of the page: handleRecipeLike holds the
\* handleRecipeListUpdate of the render it was created in, and with it that
\* render's latestRecipes
ClientCall(recipeId, closure) ==
    [handler |-> "like", session |-> Viewer, recipeId |-> recipeId, closure |-> closure,
     status |-> 0, body |-> Null]

\* a call_api('/api/delete-recipe') of the page: handleDeleteRecipe holds the
\* handleRecipeListUpdate prop of the render it was created in
DeleteCall(recipeId, closure) ==
    [ClientCall(recipeId, closure) EXCEPT !.handler = "delete"]

\* every entry is a recipe FrontDisplay can render
HomeRenders ==
    /\ \A k \in 1..Len(recipeList) : "_id" \in DOMAIN recipeList[k]
    /\ \A k \in 1..Len(searchView) : "_id" \in DOMAIN searchView[k]

\* the card of the recipe shows Loading in place of its buttons
CardLoading(recipe) == viewDeleteId = recipe._id

\* setLatestRecipes(list), then the effect on [searchVal, latestRecipes]
setLatestRecipes(list) ==
    /\ recipeList' = list
    /\ searchView' = searchEffect(searchVal, list, searchView)

homeUntouched ==
    <<recipeCount, aigenerated, batches, overlapped, catalog, workflowButCatalog, lastCall,
      s3Vars>>

InitHome ==
    /\ recipeDb = {StoredRecipe("r1", Owner), StoredRecipe("r2", Viewer)}
    /\ recipeCount = 2
    /\ aigenerated = <<>>
    /\ batches = {}
    /\ running = <<>>
    /\ oddToggles = {}
    /\ overlapped = {}
    /\ lastRequest = NoRequest
    /\ S3Idle
    /\ recipeList = getRecipes(recipeDb, Viewer)
    /\ lastCall = NoCall
    /\ searchVal = <<>>
    /\ searchView = searchEffect(searchVal, recipeList, <<>>)
    /\ viewDeleteId = ""
    /\ catalog = InitialCatalog
    /\ aiCount = 0
    /\ Mounted(aiCount, catalog, <<>>)

\* FrontDisplay's like button: handleRecipeLike up to the await
handleRecipeLike ==
    \E k \in 1..Len(searchView) :
       /\ HomeRenders
       /\ ~CardLoading(searchView[k])
       /\ ~searchView[k].owns
       /\ Len(running) < MaxInFlight
       /\ running' = Append(running, ClientCall(searchView[k]._id, recipeList))
       /\ UNCHANGED <<recipeDb, oddToggles, lastRequest, recipeList, homeVars, homeUntouched>>

\* toggleLike serving the i-th call of the page
LikeServedOf(i) ==
    /\ i \in 1..Len(running)
    /\ running[i].handler = "like"
    /\ running[i].status = 0
    /\ LET recipeId == running[i].recipeId
           found == findById(recipeDb, recipeId)
       IN  \/ /\ found = {}
              /\ running' = [running EXCEPT ![i].status = 200,
                                            ![i].body = NotFoundText(recipeId)]
              /\ Answer(Request(Viewer), 200, {"dbRead"})
              /\ UNCHANGED <<recipeDb, oddToggles>>
           \/ /\ found # {}
              /\ LET recipe == CHOOSE doc \in found : TRUE
                     update == likeUpdate(LikedBy(recipe, Viewer), Viewer)
                     db == findByIdAndUpdate(recipeDb, recipeId, update)
                 IN  /\ recipeDb' = db
                     /\ oddToggles' = ToggleCounted(recipeId, Viewer)
                     /\ running' = [running EXCEPT
                                       ![i].status = 200,
                                       ![i].body = getRecipes(findById(db, recipeId),
                                                              Viewer)[1]]
                     /\ Answer(Request(Viewer), 200, {"dbRead", "dbWrite"})
           \/ \* connectDB or a query throws
              /\ running' = [running EXCEPT ![i].status = 500]
              /\ Answer(Request(Viewer), 500, {})
              /\ UNCHANGED <<recipeDb, oddToggles>>
    /\ UNCHANGED <<recipeList, homeVars, homeUntouched>>

LikeServed == \E i \in 1..MaxInFlight : LikeServedOf(i)

\* handleRecipeLike after the await: updateRecipeList(result), or the catch
LikeAnsweredOf(i) ==
    /\ i \in 1..Len(running)
    /\ running[i].handler = "like"
    /\ running[i].status # 0
    /\ running' = RemoveAt(running, i)
    /\ setLatestRecipes(IF running[i].status = 200
                        THEN updateRecipeList(running[i].closure, running[i].body, Undefined)
                        ELSE recipeList)
    /\ UNCHANGED <<recipeDb, oddToggles, lastRequest, searchVal, viewDeleteId, homeUntouched>>

LikeAnswered == \E i \in 1..MaxInFlight : LikeAnsweredOf(i)

\* ViewRecipes.handleDeleteRecipe up to the await, from the dialog of a card
\* whose modal shows Delete Recipe (recipe.owns)
handleDeleteRecipe ==
    \E k \in 1..Len(searchView) :
       /\ HomeRenders
       /\ ~CardLoading(searchView[k])
       /\ searchView[k].owns
       /\ Len(running) < MaxInFlight
       /\ viewDeleteId' = searchView[k]._id
       /\ running' = Append(running, DeleteCall(searchView[k]._id, recipeList))
       /\ UNCHANGED <<recipeDb, oddToggles, lastRequest, recipeList, searchVal, searchView,
                      homeUntouched>>

\* delete-recipe serving the i-th call of the page
DeleteServedOf(i) ==
    /\ i \in 1..Len(running)
    /\ running[i].handler = "delete"
    /\ running[i].status = 0
    /\ LET recipeId == running[i].recipeId
           found == findById(recipeDb, recipeId)
       IN  \/ /\ found # {}
              /\ deleteAllowed(Viewer, CHOOSE doc \in found : TRUE)
              /\ recipeDb' = findByIdAndDelete(recipeDb, recipeId)
              /\ oddToggles' = Forgotten(oddToggles, recipeId)
              /\ running' = [running EXCEPT ![i].status = 200]
              /\ Answer(Request(Viewer), 200, {"dbRead", "dbWrite"})
           \/ \* connectDB or a query throws
              /\ running' = [running EXCEPT ![i].status = 500]
              /\ Answer(Request(Viewer), 500, {})
              /\ UNCHANGED <<recipeDb, oddToggles>>
    /\ UNCHANGED <<recipeList, homeVars, homeUntouched>>

DeleteServed == \E i \in 1..MaxInFlight : DeleteServedOf(i)

\* handleDeleteRecipe after the await: handleRecipeListUpdate(null, id) on a
\* message, setDeleteId('') in the catch
DeleteAnsweredOf(i) ==
    /\ i \in 1..Len(running)
    /\ running[i].handler = "delete"
    /\ running[i].status # 0
    /\ running' = RemoveAt(running, i)
    /\ IF running[i].status = 200
       THEN /\ setLatestRecipes(updateRecipeList(running[i].closure, Null,
                                                 running[i].recipeId))
            /\ UNCHANGED viewDeleteId
       ELSE /\ viewDeleteId' = ""
            /\ UNCHANGED <<recipeList, searchView>>
    /\ UNCHANGED <<recipeDb, oddToggles, lastRequest, searchVal, homeUntouched>>

DeleteAnswered == \E i \in 1..MaxInFlight : DeleteAnsweredOf(i)

\* delete-recipe serving the owner, who uses another client
OwnerDeletes ==
    \E recipeId \in {doc._id : doc \in recipeDb} :
       /\ deleteAllowed(Owner, CHOOSE doc \in findById(recipeDb, recipeId) : TRUE)
       /\ recipeDb' = findByIdAndDelete(recipeDb, recipeId)
       /\ oddToggles' = Forgotten(oddToggles, recipeId)
       /\ Answer(Request(Owner), 200, {"dbRead", "dbWrite"})
       /\ UNCHANGED <<running, recipeList, homeVars, homeUntouched>>

\* the search box of the page
HomeTypes == HomeRenders /\ setSearchVal

HomeSearches == HomeRenders /\ handleSearch

NextHome ==
    \/ handleRecipeLike \/ LikeServed \/ LikeAnswered
    \/ handleDeleteRecipe \/ DeleteServed \/ DeleteAnswered
    \/ OwnerDeletes
    \/ HomeTypes \/ HomeSearches

SpecHome == InitHome /\ [][NextHome]_vars

(***************************************************************************)
(* Properties of the Home page                                             *)
(***************************************************************************)
\* C16: a like request for a recipe that is no longer in the collection
\* changes no persisted recipe when it is served, and leaves the list of the
\* page that sent it unchanged when it is answered.
C16_LikeOfMissingRecipeChangesNothing ==
    [][\A i \in 1..MaxInFlight :
          /\ (LikeServedOf(i) /\ findById(recipeDb, running[i].recipeId) = {}) =>
                recipeDb' = recipeDb
          /\ (LikeAnsweredOf(i) /\ running[i].body = NotFoundText(running[i].recipeId)) =>
                recipeList' = recipeList]_vars

\* C26: when the response of a like or delete request of the page is
\* applied, every other recipe of the page's current list stays as it is:
\* what an earlier response changed is not taken back.
C26_NoResponseOverwritten ==
    [][\A i \in 1..MaxInFlight :
          LET others(list, id) ==
                  SelectSeq(list, LAMBDA r : "_id" \in DOMAIN r /\ r._id # id)
          IN  (\/ LikeAnsweredOf(i) /\ running[i].status = 200
                                    /\ "_id" \in DOMAIN running[i].body
               \/ DeleteAnsweredOf(i) /\ running[i].status = 200) =>
                 others(recipeList', running[i].recipeId)
                    = others(recipeList, running[i].recipeId)]_vars

\* C27: every card on screen is an entry of the latest recipe list, with or
\* without a search text, and a card shows Loading only while the delete
\* request of its recipe is outstanding.
C27_DisplayedCardsAreCurrent ==
    HomeRenders =>
       \A k \in 1..Len(searchView) :
          /\ \E j \in 1..Len(recipeList) : recipeList[j] = searchView[k]
          /\ CardLoading(searchView[k]) =>
                \E i \in 1..Len(running) :
                   running[i].handler = "delete" /\ running[i].recipeId = viewDeleteId

(***************************************************************************)
(* save-recipes and the S3 bucket: SpecUpload                              *)
(*                                                                         *)
(* uploadImageToS3 calls s3.send(command) without awaiting it, so the      *)
(* PutObject commands of a request settle on their own, before or after    *)
(* the handler's insertMany.                                               *)
(***************************************************************************)
\* the user of the save requests, and the batch api/generate-recipes gave them
Uploader == "u1"

\* the keys uploadImageToS3 called s3.send for: its result says uploaded: true
\* as soon as the command is sent
sentKeys(uploadResults) ==
    {uploadResults[i].location :
        i \in {j \in 1..Len(uploadResults) : uploadResults[j].uploaded}}

RECURSIVE recipesHeld(_)
recipesHeld(invocations) ==
    IF invocations = <<>> THEN 0
    ELSE Len(Head(invocations).recipes) + recipesHeld(Tail(invocations))

uploadUntouched ==
    <<recipeCount, aigenerated, batches, oddToggles, overlapped, catalog, workflowButCatalog,
      utilVars, homeVars>>

InitUpload ==
    /\ recipeDb = {}
    /\ recipeCount = 0
    /\ aigenerated = <<Uploader>>
    /\ batches = {ObjectId(1)}
    /\ running = <<>>
    /\ oddToggles = {}
    /\ overlapped = {}
    /\ lastRequest = NoRequest
    /\ S3Idle
    /\ UtilsIdle
    /\ HomeIdle
    /\ catalog = InitialCatalog
    /\ aiCount = 0
    /\ Mounted(aiCount, catalog, <<>>)

\* save-recipes up to the await of insertMany: generateImages, then
\* uploadImagesToS3, whose uploadImageToS3 answers uploaded: false when the
\* image cannot be fetched or S3 is not configured, and otherwise sends the
\* command and answers uploaded: true
SaveUploads ==
    \E body \in SaveBodies, prepared \in [1..MaxRecipes -> BOOLEAN] :
       LET recipes == body.recipes
           uploadResults ==
               [i \in 1..Len(recipes) |->
                   [location |-> recipes[i].openaiPromptId, uploaded |-> prepared[i]]]
       IN  /\ body.hasRecipes
           /\ \A i \in (Len(recipes) + 1)..MaxRecipes : prepared[i]
           /\ Len(running) < MaxInFlight
           /\ recipeCount + recipesHeld(running) + Len(recipes) <= MaxDocs
           /\ s3Pending' = s3Pending \cup sentKeys(uploadResults)
           /\ running' = Append(running, [handler |-> "save", session |-> Uploader,
                                          recipes |-> recipes,
                                          uploadResults |-> uploadResults])
           /\ Answer([Request(Uploader) EXCEPT !.sent = Len(recipes)], 0, {"ai", "s3"})
           /\ UNCHANGED <<recipeDb, s3Objects, uploadUntouched>>

\* save-recipes from insertMany on
SaveInserts ==
    \E i \in 1..Len(running), insertOk \in BOOLEAN :
       LET invocation == running[i]
           recipes == invocation.recipes
           updatedRecipes ==
               {updatedRecipe(recipes[k], invocation.session, invocation.uploadResults,
                              RecipeObjectIds[recipeCount + k]) : k \in 1..Len(recipes)}
       IN  /\ invocation.handler = "save"
           /\ running' = RemoveAt(running, i)
           /\ recipeDb' = insertMany(recipeDb, updatedRecipes, insertOk)
           /\ recipeCount' = IF insertOk THEN recipeCount + Len(recipes) ELSE recipeCount
           /\ Answer([Request(invocation.session) EXCEPT !.sent = Len(recipes)],
                     IF insertOk THEN 200 ELSE 500, {"ai", "dbWrite", "s3"})
           /\ UNCHANGED <<s3Vars, aigenerated, batches, oddToggles, overlapped, catalog,
                          workflowButCatalog, utilVars, homeVars>>

\* S3 settles a PutObject command: the object is stored, or the command
\* fails and the rejection of the promise nobody holds is lost
PutObjectSettles ==
    \E key \in s3Pending, stored \in BOOLEAN :
       /\ s3Pending' = s3Pending \ {key}
       /\ s3Objects' = IF stored THEN s3Objects \cup {key} ELSE s3Objects
       /\ UNCHANGED <<recipeDb, running, lastRequest, uploadUntouched>>

NextUpload == SaveUploads \/ SaveInserts \/ PutObjectSettles

SpecUpload == InitUpload /\ [][NextUpload]_vars

(***************************************************************************)
(* Properties of the upload                                                *)
(***************************************************************************)
\* the keys the recipes of the model are uploaded under
UploadKeys == {clientKey(b, idx) : b \in batches, idx \in 0..(MaxRecipes - 1)}

\* C30: a persisted recipe has the S3 image URL of a key only if the object
\* of that key is stored in the bucket; a recipe whose upload failed or has
\* not completed has the fallback image link.
C30_S3LinkOnlyAfterUpload ==
    \A doc \in recipeDb, key \in UploadKeys :
       doc.imgLink = S3Link(key) => key \in s3Objects
====
